---- MODULE Spec2Model ----
(***************************************************************************)
(* Model of the dispatch core of the echo chat client.                     *)
(*                                                                         *)
(*   Spec       the agent loop          (src/src/services/agent.rs,        *)
(*                                       src/src/tools/registry.rs)        *)
(*   SpecParse  the three SSE parsers   (src/src/providers/*/stream.rs)    *)
(*                                                                         *)
(* Option<T> values are sequences: <<>> is None, <<v>> is Some(v).         *)
(* A String is the sequence of its bytes (Rust strings are UTF-8 buffers). *)
(***************************************************************************)
EXTENDS Integers, Sequences, FiniteSets, TLC

VARIABLES
    \* ---- agent loop (run_agent_loop) ----
    pc,                  \* position of the loop task
    max_iterations,      \* params.max_iterations
    auto_approve_read_tools, \* params.auto_approve_read_tools
    iteration,           \* iteration counter
    total_tokens_in,     \* Option<i64>
    total_tokens_out,    \* Option<i64>
    full_text,           \* text of all finished iterations
    iteration_text,      \* text of the iteration in flight
    tool_calls,          \* calls collected in the iteration in flight
    tool_results,        \* results of the calls resolved so far
    call_idx,            \* position of the for loop over tool_calls
    auto_approved_tools, \* HashSet<String>
    messages,            \* params.request.messages
    cancel_token,        \* CancellationToken: TRUE once triggered
    approval_rx,         \* decisions buffered in the approval channel
    approval_open,       \* the approval sender is still alive
    sink_open,           \* the receiver of event_tx is still alive
    events,              \* AgentEvents delivered to the sink, in order
    provider,            \* "free", or "stub": the scripted provider stub
    stubN,               \* the stub asks for one tool in its first stubN answers
    \* history of the run (observations only, never read by the loop)
    requests,            \* provider requests issued
    execLog,             \* ToolRegistry::execute calls started
    decisionLog,         \* approval decisions the loop received
    cancelSeen,          \* where the loop observed the cancellation, if it did
    usageLog,            \* what each finished stream reported in its Done
    \* ---- stream parsers (parse_sse_stream) ----
    ppc,                 \* "idle", "read", "finished"
    parser,              \* "claude", "gemini", "local"
    body,                \* the complete response body (bytes)
    rest,                \* bytes the transport has not delivered yet
    pst,                 \* the parser task's local state
    \* ---- conversation store (Database, services::conversation) ----
    db,                  \* the rows of the messages table, in insertion order
    op,                  \* the last operation on the store and its outcome
    \* ---- built-in tools (web_fetch, file_write) ----
    net,                 \* the HTTP requests sent so far
    conns,               \* the addresses the HTTP client connected to
    disk,                \* the file system: absolute path -> node
    tool,                \* the last tool call and its ToolResult
    \* ---- provider adapters (AiProvider) ----
    rpc                  \* the last adapter call and what it returned

agentVars == <<pc, max_iterations, auto_approve_read_tools, iteration,
               total_tokens_in, total_tokens_out, full_text, iteration_text,
               tool_calls, tool_results, call_idx, auto_approved_tools,
               messages, cancel_token, approval_rx, approval_open, sink_open,
               events, provider, stubN, requests, execLog, decisionLog,
               cancelSeen, usageLog>>
parseVars == <<ppc, parser, body, rest, pst>>
storeVars == <<db, op>>
toolVars == <<net, conns, disk, tool>>
adapterVars == <<rpc>>
vars == <<agentVars, parseVars, storeVars, toolVars, adapterVars>>

----------------------------------------------------------------------------
(* Bounds of the model.                                                    *)
MaxIterations == 2      \* max_iterations ranges over 0..MaxIterations
MaxStream     == 2      \* Token and ToolCallComplete events a provider
                        \* streams in one run, all answers together

None == <<>>
Some(v) == <<v>>

----------------------------------------------------------------------------
(* Tool registry.                                                          *)

\* the registered tools and their requires_approval() policy
Registered == {"file_read", "shell_execute"}
Policy == [n \in Registered |-> n = "shell_execute"]
\* tool names a provider may ask for; "lookup" is not registered
ToolNames == Registered \cup {"lookup"}

requires_approval_unknown_false(tool_name) ==
    IF tool_name \in Registered THEN Policy[tool_name] ELSE FALSE

requires_approval(tool_name) ==
    IF tool_name \in Registered THEN Policy[tool_name] ELSE TRUE

\* the execute that answers for an unregistered name as for a registered one
ExecuteAnyName(call) ==
    {[call_id |-> call.id, content |-> c, is_error |-> (c = "failed")] :
        c \in {"ok", "failed"}}

\* ToolRegistry::execute: the results a call can produce
ExecuteResults(call) ==
    IF call.name \in Registered
    THEN {[call_id |-> call.id, content |-> c, is_error |-> (c = "failed")] :
             c \in {"ok", "failed"}}
    ELSE {[call_id |-> call.id, content |-> "Unknown tool", is_error |-> TRUE]}

----------------------------------------------------------------------------
(* Data of the agent loop.                                                 *)

CallIds == <<"t1", "t2", "t3", "t4">>
NoCall == [id |-> "", name |-> ""]
NoResult == [call_id |-> "", content |-> "", is_error |-> FALSE]
\* the k-th Token of a run carries TokenTexts[k]
TokenTexts == <<"a", "b", "c", "d">>
\* (tokens_in, tokens_out) pairs a Done may report
UsagePairs == {<<None, None>>, <<Some(1), Some(2)>>}
StopReasons == {None, Some("EndTurn"), Some("ToolUse"), Some("MaxTokens")}
Decisions == {"Allow", "Deny", "AllowAlways"}

AgentEvent(type, call, text, result, tin, tout, msg) ==
    [type |-> type, call |-> call, text |-> text, result |-> result,
     tokens_in |-> tin, tokens_out |-> tout, msg |-> msg]
TextToken(t)        == AgentEvent("TextToken", NoCall, <<t>>, NoResult, None, None, "")
ToolCallReceived(c) == AgentEvent("ToolCallReceived", c, <<>>, NoResult, None, None, "")
ToolExecuting(c)    == AgentEvent("ToolExecuting", c, <<>>, NoResult, None, None, "")
ToolCompleted(c, r) == AgentEvent("ToolCompleted", c, <<>>, r, None, None, "")
AwaitingApproval(c) == AgentEvent("AwaitingApproval", c, <<>>, NoResult, None, None, "")
DoneEvent(text, tin, tout) == AgentEvent("Done", NoCall, text, NoResult, tin, tout, "")
ErrorEvent(msg)     == AgentEvent("Error", NoCall, <<>>, NoResult, None, None, msg)

ChatMessage(role, content, calls, results) ==
    [role |-> role, content |-> content, tool_calls |-> calls,
     tool_results |-> results]

\* event_tx.send(event).await: Ok, or Err when the receiver has been
\* dropped.  The drop of the receiver is visible to the loop only at its
\* next send, so it is placed at that send.
SendOutcomes == IF sink_open THEN {TRUE, FALSE} ELSE {FALSE}

\* the total replaced by the iteration's value
AddTokensKeepLast(total, it) == IF it = None THEN total ELSE it

\* nothing reported yet: the number of streams that have finished, the
\* values their Done events carried in each direction, and whether the last
\* one stopped for tool use
NoUsage == [finished |-> 0, tokens_in |-> <<>>, tokens_out |-> <<>>,
            tool_use |-> FALSE]

\* *total.get_or_insert(0) += v
AddTokens(total, it) ==
    IF it = None THEN total
    ELSE IF total = None THEN Some(it[1]) ELSE Some(total[1] + it[1])

----------------------------------------------------------------------------
(* The provider stream of one iteration, as the loop sees it on stream_rx. *)

StreamEvent(type, call, text, tin, tout, sr, msg) ==
    [type |-> type, call |-> call, text |-> text, tokens_in |-> tin,
     tokens_out |-> tout, stop_reason |-> sr, msg |-> msg]
SToken(t)          == StreamEvent("Token", NoCall, <<t>>, None, None, None, "")
SToolCallStart     == StreamEvent("ToolCallStart", NoCall, <<>>, None, None, None, "")
SToolCallDelta     == StreamEvent("ToolCallDelta", NoCall, <<>>, None, None, None, "")
SToolCallComplete(c) == StreamEvent("ToolCallComplete", c, <<>>, None, None, None, "")
SDone(tin, tout, sr) == StreamEvent("Done", NoCall, <<>>, tin, tout, sr, "")
SError(msg)        == StreamEvent("Error", NoCall, <<>>, None, None, None, msg)
SClosed            == StreamEvent("Closed", NoCall, <<>>, None, None, None, "")

CallsSoFar == Len(SelectSeq(events, LAMBDA e : e.type = "ToolCallReceived"))
TokensSoFar == Len(full_text) + Len(iteration_text)
StreamedSoFar == CallsSoFar + TokensSoFar

NextCalls == IF StreamedSoFar < MaxStream
             THEN {[id |-> CallIds[Len(tool_calls) + 1], name |-> n] : n \in ToolNames}
             ELSE {}
NextTokens == IF StreamedSoFar < MaxStream THEN {TokenTexts[TokensSoFar + 1]} ELSE {}

\* any provider: every event the channel can deliver next
FreeEvents ==
    {SToken(t) : t \in NextTokens}
    \cup {SToolCallComplete(c) : c \in NextCalls}
    \cup {SDone(u[1], u[2], sr) : u \in UsagePairs, sr \in StopReasons}
    \cup {SToolCallStart, SToolCallDelta, SError("provider error"), SClosed}

\* the provider stub: ToolUse with one tool call for the first stubN
\* requests, EndTurn afterwards
StubEvents ==
    IF iteration <= stubN
    THEN IF tool_calls = <<>>
         THEN {SToolCallComplete([id |-> CallIds[1], name |-> n]) : n \in ToolNames}
         ELSE {SDone(Some(1), Some(2), Some("ToolUse"))}
    ELSE {SDone(Some(1), Some(2), Some("EndTurn"))}

ProviderEvents == IF provider = "stub" THEN StubEvents ELSE FreeEvents

----------------------------------------------------------------------------
(* run_agent_loop.                                                         *)

\* the pre-population that takes every registered tool
PrePopulatedWithAll(flag) == IF flag THEN Registered ELSE {}

\* the auto-approved set after the pre-population at loop start
PrePopulated(flag) ==
    IF flag THEN {n \in Registered : ~requires_approval(n)} ELSE {}

InitAgent ==
    /\ pc = "start"
    /\ max_iterations \in 0..MaxIterations
    /\ auto_approve_read_tools \in BOOLEAN
    /\ iteration = 0
    /\ total_tokens_in = None
    /\ total_tokens_out = None
    /\ full_text = <<>>
    /\ iteration_text = <<>>
    /\ tool_calls = <<>>
    /\ tool_results = <<>>
    /\ call_idx = 1
    /\ auto_approved_tools = PrePopulated(auto_approve_read_tools)
    /\ messages = <<ChatMessage("user", <<"q">>, <<>>, <<>>)>>
    /\ cancel_token = FALSE
    /\ approval_rx = <<>>
    /\ approval_open = TRUE
    /\ sink_open = TRUE
    /\ events = <<>>
    /\ \/ provider = "free" /\ stubN = 0
       \/ provider = "stub" /\ stubN \in 0..MaxIterations
    /\ requests = 0
    /\ execLog = <<>>
    /\ decisionLog = <<>>
    /\ cancelSeen = "no"
    /\ usageLog = NoUsage

ParseIdle ==
    /\ ppc = "idle"
    /\ parser = "none"
    /\ body = [path |-> <<>>, eol |-> <<>>, cut |-> FALSE, bytes |-> <<>>]
    /\ rest = <<>>
    /\ pst = <<>>

\* no operation on the store yet
NoOp ==
    [name |-> "none", conversation_id |-> "", msg_id |-> 0, new_content |-> "",
     ok |-> TRUE, error |-> "", returned |-> <<>>, before |-> <<>>]

StoreIdle ==
    /\ db = <<>>
    /\ op = NoOp

\* no tool call yet
NotCalled ==
    [name |-> "none", arguments |-> <<>>, answer |-> <<>>, content |-> <<>>,
     is_error |-> FALSE, sent |-> <<>>, before |-> {}]

ToolIdle ==
    /\ net = <<>>
    /\ conns = <<>>
    /\ disk = {}
    /\ tool = NotCalled

\* no adapter call yet
NoRpc ==
    [adapter |-> "none", method |-> "none", base_url |-> <<>>,
     reply |-> [sent |-> FALSE, status |-> 0, body |-> "none"],
     result |-> [ok |-> TRUE, error |-> "", value |-> <<>>]]

AdapterIdle == rpc = NoRpc

\* return with nothing sent
ReturnSilently(ev) ==
    /\ pc' = "returned"
    /\ UNCHANGED <<events, sink_open>>

\* a terminal event sent with `let _ =`, then return
Terminate(ev) ==
    \E delivered \in SendOutcomes :
        /\ sink_open' = delivered
        /\ events' = IF delivered THEN Append(events, ev) ELSE events
        /\ pc' = "returned"

\* the send whose failure is not looked at: the loop goes on at `next`
SendAndGoOn(ev, next) ==
    \E delivered \in SendOutcomes :
        /\ sink_open' = delivered
        /\ events' = IF delivered THEN Append(events, ev) ELSE events
        /\ pc' = next

\* send_or_return!(event_tx, ev), then go on at `next`
SendOrReturn(ev, next) ==
    \E delivered \in SendOutcomes :
        /\ sink_open' = delivered
        /\ events' = IF delivered THEN Append(events, ev) ELSE events
        /\ pc' = IF delivered THEN next ELSE "returned"

\* `iteration >= params.max_iterations`
IterationLimitOffByOne(it, max) == it > max

IterationLimitReached(it, max) == it >= max

\* `tool_calls.is_empty() || stop_reason != Some(StopReason::ToolUse)`
IsFinalAnswerInverted(calls, sr) == calls = <<>> \/ sr = Some("ToolUse")

IsFinalAnswer(calls, sr) == calls = <<>> \/ sr # Some("ToolUse")

\* top of the outer loop: the cancellation check, the iteration bound, and
\* the spawn of the provider stream
LoopStart ==
    /\ pc = "start"
    /\ IF cancel_token
       THEN /\ Terminate(ErrorEvent("Cancelled"))
            /\ cancelSeen' = "start"
            /\ UNCHANGED <<iteration, requests, iteration_text, tool_calls>>
       ELSE IF IterationLimitReached(iteration, max_iterations)
       THEN /\ Terminate(ErrorEvent("Reached maximum iterations"))
            /\ UNCHANGED <<cancelSeen, iteration, requests, iteration_text, tool_calls>>
       ELSE /\ iteration' = iteration + 1
            /\ requests' = requests + 1
            /\ iteration_text' = <<>>
            /\ tool_calls' = <<>>
            /\ pc' = "stream"
            /\ UNCHANGED <<events, sink_open, cancelSeen>>
    /\ UNCHANGED <<max_iterations, auto_approve_read_tools, total_tokens_in,
                   total_tokens_out, full_text, tool_results, call_idx,
                   auto_approved_tools, messages, cancel_token, approval_rx,
                   approval_open, provider, stubN, execLog, decisionLog,
                   usageLog>>
    /\ UNCHANGED <<parseVars, storeVars, toolVars, adapterVars>>

\* select! branch: cancel_token.cancelled() while the stream is in flight
StreamCancelled ==
    /\ pc = "stream"
    /\ cancel_token
    /\ Terminate(DoneEvent(full_text, total_tokens_in, total_tokens_out))
    /\ cancelSeen' = "stream"
    /\ UNCHANGED <<max_iterations, auto_approve_read_tools, iteration,
                   total_tokens_in, total_tokens_out, full_text, iteration_text,
                   tool_calls, tool_results, call_idx, auto_approved_tools,
                   messages, cancel_token, approval_rx, approval_open,
                   provider, stubN, requests, execLog, decisionLog,
                   usageLog>>
    /\ UNCHANGED <<parseVars, storeVars, toolVars, adapterVars>>

\* after the inner loop: token totals, full_text, and the final-answer test
FinishIteration(tin, tout, sr) ==
    LET tot_in  == AddTokens(total_tokens_in, tin)
        tot_out == AddTokens(total_tokens_out, tout)
        text    == full_text \o iteration_text
    IN  /\ total_tokens_in' = tot_in
        /\ total_tokens_out' = tot_out
        /\ full_text' = text
        /\ IF IsFinalAnswer(tool_calls, sr)
           THEN /\ Terminate(DoneEvent(text, tot_in, tot_out))
                /\ UNCHANGED <<tool_results, call_idx>>
           ELSE /\ pc' = "tools"
                /\ tool_results' = <<>>
                /\ call_idx' = 1
                /\ UNCHANGED <<events, sink_open>>
        /\ usageLog' = [finished |-> usageLog.finished + 1,
                         tokens_in |-> usageLog.tokens_in \o tin,
                         tokens_out |-> usageLog.tokens_out \o tout,
                         tool_use |-> (sr = Some("ToolUse"))]
        /\ UNCHANGED <<iteration_text, tool_calls>>

\* the Error is passed on and the inner loop goes on to the tool phase
OnStreamErrorBreak(error) ==
    /\ SendAndGoOn(ErrorEvent(error), "tools")
    /\ UNCHANGED <<iteration_text, total_tokens_in, total_tokens_out,
                   full_text, tool_calls, tool_results, call_idx, usageLog>>

\* `Some(StreamEvent::Error(error))`: the Error is passed on, then return
OnStreamError(error) ==
    /\ Terminate(ErrorEvent(error))
    /\ UNCHANGED <<iteration_text, total_tokens_in, total_tokens_out,
                   full_text, tool_calls, tool_results, call_idx, usageLog>>

\* select! branch: stream_rx.recv()
StreamRecv ==
    /\ pc = "stream"
    /\ \E ev \in ProviderEvents :
         CASE ev.type = "Token" ->
                /\ iteration_text' = iteration_text \o ev.text
                /\ SendOrReturn(TextToken(ev.text[1]), "stream")
                /\ UNCHANGED <<total_tokens_in, total_tokens_out, full_text,
                               tool_calls, tool_results, call_idx, usageLog>>
           [] ev.type \in {"ToolCallStart", "ToolCallDelta"} ->
                UNCHANGED <<pc, events, sink_open, iteration_text,
                            total_tokens_in, total_tokens_out, full_text,
                            tool_calls, tool_results, call_idx, usageLog>>
           [] ev.type = "ToolCallComplete" ->
                /\ SendOrReturn(ToolCallReceived(ev.call), "stream")
                /\ tool_calls' = IF sink_open' THEN Append(tool_calls, ev.call)
                                 ELSE tool_calls
                /\ UNCHANGED <<iteration_text, total_tokens_in, total_tokens_out,
                               full_text, tool_results, call_idx, usageLog>>
           [] ev.type = "Done" ->
                FinishIteration(ev.tokens_in, ev.tokens_out, ev.stop_reason)
           [] ev.type = "Error" -> OnStreamError(ev.msg)
           [] ev.type = "Closed" ->
                FinishIteration(None, None, None)
    /\ UNCHANGED <<max_iterations, auto_approve_read_tools, iteration,
                   auto_approved_tools, messages, cancel_token, approval_rx,
                   approval_open, provider, stubN, requests, execLog,
                   decisionLog, cancelSeen>>
    /\ UNCHANGED <<parseVars, storeVars, toolVars, adapterVars>>

\* the two turns pushed in the other order
AppendTurnsResultsFirst ==
    messages \o <<ChatMessage("user", <<>>, <<>>, tool_results),
                  ChatMessage("assistant", iteration_text, tool_calls, <<>>)>>

\* `for call in &tool_calls` is exhausted: the two synthetic turns
AppendTurns ==
    messages \o <<ChatMessage("assistant", iteration_text, tool_calls, <<>>),
                  ChatMessage("user", <<>>, <<>>, tool_results)>>

\* send ToolExecuting and start params.tools.execute(call)
StartExecute(call) ==
    /\ SendOrReturn(ToolExecuting(call), "exec")
    /\ execLog' = IF sink_open'
                  THEN Append(execLog,
                         [it |-> iteration, idx |-> call_idx, call |-> call,
                          cancelled |-> cancel_token, at |-> Len(events) + 1])
                  ELSE execLog

\* the test that does not consult the auto-approved set
NeedsApprovalEveryTime(name, approved) == requires_approval(name)

\* `requires_approval(&call.name) && !auto_approved_tools.contains(&call.name)`
NeedsApproval(name, approved) ==
    requires_approval(name) /\ name \notin approved

\* the calls taken last first
CurrentCallReversed(calls, idx) == calls[Len(calls) + 1 - idx]

\* `for call in &tool_calls`: the call the loop is at
CurrentCall(calls, idx) == calls[idx]

\* head of the for loop over the iteration's tool calls
ToolNext ==
    /\ pc = "tools"
    /\ IF call_idx > Len(tool_calls)
       THEN /\ messages' = AppendTurns
            /\ pc' = "start"
            /\ UNCHANGED <<events, sink_open, execLog>>
       ELSE LET call == CurrentCall(tool_calls, call_idx)
                needs_approval == NeedsApproval(call.name, auto_approved_tools)
            IN  /\ IF needs_approval
                   THEN /\ SendOrReturn(AwaitingApproval(call), "await")
                        /\ UNCHANGED execLog
                   ELSE StartExecute(call)
                /\ UNCHANGED messages
    /\ UNCHANGED <<max_iterations, auto_approve_read_tools, iteration,
                   total_tokens_in, total_tokens_out, full_text, iteration_text,
                   tool_calls, tool_results, call_idx, auto_approved_tools,
                   cancel_token, approval_rx, approval_open, provider, stubN,
                   requests, decisionLog, cancelSeen,
                   usageLog>>
    /\ UNCHANGED <<parseVars, storeVars, toolVars, adapterVars>>

\* select! branch: cancel_token.cancelled() while awaiting the decision
ApprovalCancelled ==
    /\ pc = "await"
    /\ cancel_token
    /\ Terminate(DoneEvent(full_text, total_tokens_in, total_tokens_out))
    /\ cancelSeen' = "await"
    /\ UNCHANGED <<max_iterations, auto_approve_read_tools, iteration,
                   total_tokens_in, total_tokens_out, full_text, iteration_text,
                   tool_calls, tool_results, call_idx, auto_approved_tools,
                   messages, cancel_token, approval_rx, approval_open,
                   provider, stubN, requests, execLog, decisionLog,
                   usageLog>>
    /\ UNCHANGED <<parseVars, storeVars, toolVars, adapterVars>>

\* the denial recorded as a successful result
DeniedAsSuccess(call) ==
    [call_id |-> call.id, content |-> "Tool call denied by user", is_error |-> FALSE]

\* ToolResult pushed on ApprovalDecision::Deny
DeniedResult(call) ==
    [call_id |-> call.id, content |-> "Tool call denied by user", is_error |-> TRUE]

\* select! branch: approval_rx.recv() yields a decision
ApprovalRecv ==
    /\ pc = "await"
    /\ approval_rx # <<>>
    /\ LET decision == Head(approval_rx)
           call == CurrentCall(tool_calls, call_idx)
       IN  /\ approval_rx' = Tail(approval_rx)
           /\ decisionLog' = Append(decisionLog,
                 [it |-> iteration, idx |-> call_idx, call |-> call,
                  decision |-> decision, at |-> Len(events)])
           /\ CASE decision = "Deny" ->
                     /\ tool_results' = Append(tool_results, DeniedResult(call))
                     /\ call_idx' = call_idx + 1
                     /\ pc' = "tools"
                     /\ UNCHANGED <<auto_approved_tools, events, sink_open, execLog>>
                [] decision = "AllowAlways" ->
                     /\ auto_approved_tools' = auto_approved_tools \cup {call.name}
                     /\ StartExecute(call)
                     /\ UNCHANGED <<tool_results, call_idx>>
                [] decision = "Allow" ->
                     /\ StartExecute(call)
                     /\ UNCHANGED <<auto_approved_tools, tool_results, call_idx>>
    /\ UNCHANGED <<max_iterations, auto_approve_read_tools, iteration,
                   total_tokens_in, total_tokens_out, full_text, iteration_text,
                   tool_calls, messages, cancel_token, approval_open,
                   provider, stubN, requests, cancelSeen,
                   usageLog>>
    /\ UNCHANGED <<parseVars, storeVars, toolVars, adapterVars>>

\* the loop goes on waiting for a decision
OnApprovalClosedWait == UNCHANGED <<pc, events, sink_open>>

\* `None =>`: the Error is sent, then return
OnApprovalClosed == Terminate(ErrorEvent("Approval channel closed"))

\* select! branch: approval_rx.recv() yields None
ApprovalClosed ==
    /\ pc = "await"
    /\ approval_rx = <<>>
    /\ ~approval_open
    /\ OnApprovalClosed
    /\ UNCHANGED <<max_iterations, auto_approve_read_tools, iteration,
                   total_tokens_in, total_tokens_out, full_text, iteration_text,
                   tool_calls, tool_results, call_idx, auto_approved_tools,
                   messages, cancel_token, approval_rx, approval_open,
                   provider, stubN, requests, execLog, decisionLog, cancelSeen,
                   usageLog>>
    /\ UNCHANGED <<parseVars, storeVars, toolVars, adapterVars>>

\* params.tools.execute(call) returns; ToolCompleted; tool_results.push
ToolExecuted ==
    /\ pc = "exec"
    /\ LET call == CurrentCall(tool_calls, call_idx)
       IN  \E result \in ExecuteResults(call) :
             /\ SendOrReturn(ToolCompleted(call, result), "tools")
             /\ tool_results' = IF sink_open' THEN Append(tool_results, result)
                                ELSE tool_results
             /\ call_idx' = IF sink_open' THEN call_idx + 1 ELSE call_idx
    /\ UNCHANGED <<max_iterations, auto_approve_read_tools, iteration,
                   total_tokens_in, total_tokens_out, full_text, iteration_text,
                   tool_calls, auto_approved_tools, messages, cancel_token,
                   approval_rx, approval_open, provider, stubN, requests,
                   execLog, decisionLog, cancelSeen,
                   usageLog>>
    /\ UNCHANGED <<parseVars, storeVars, toolVars, adapterVars>>

----------------------------------------------------------------------------
(* The collaborators of the loop: the presentation layer holds the         *)
(* cancellation token and the approval sender.  The loop reads the         *)
(* approval channel only in the approval select!, so a decision sent (or   *)
(* the sender dropped) earlier is the same to the loop as one sent when    *)
(* the loop has reached that select!; the channel's actions are placed     *)
(* there.  The presentation layer answers an AwaitingApproval once.        *)

Cancel ==
    /\ pc # "returned"
    /\ ~cancel_token
    /\ cancel_token' = TRUE
    /\ UNCHANGED <<pc, max_iterations, auto_approve_read_tools, iteration,
                   total_tokens_in, total_tokens_out, full_text, iteration_text,
                   tool_calls, tool_results, call_idx, auto_approved_tools,
                   messages, approval_rx, approval_open, sink_open, events,
                   provider, stubN, requests, execLog, decisionLog, cancelSeen,
                   usageLog>>
    /\ UNCHANGED <<parseVars, storeVars, toolVars, adapterVars>>

SendDecision ==
    /\ pc = "await"
    /\ approval_open
    /\ approval_rx = <<>>
    /\ \E d \in Decisions : approval_rx' = Append(approval_rx, d)
    /\ UNCHANGED <<pc, max_iterations, auto_approve_read_tools, iteration,
                   total_tokens_in, total_tokens_out, full_text, iteration_text,
                   tool_calls, tool_results, call_idx, auto_approved_tools,
                   messages, cancel_token, approval_open, sink_open, events,
                   provider, stubN, requests, execLog, decisionLog, cancelSeen,
                   usageLog>>
    /\ UNCHANGED <<parseVars, storeVars, toolVars, adapterVars>>

CloseApproval ==
    /\ pc = "await"
    /\ approval_open
    /\ approval_open' = FALSE
    /\ UNCHANGED <<pc, max_iterations, auto_approve_read_tools, iteration,
                   total_tokens_in, total_tokens_out, full_text, iteration_text,
                   tool_calls, tool_results, call_idx, auto_approved_tools,
                   messages, cancel_token, approval_rx, sink_open, events,
                   provider, stubN, requests, execLog, decisionLog, cancelSeen,
                   usageLog>>
    /\ UNCHANGED <<parseVars, storeVars, toolVars, adapterVars>>

Init == InitAgent /\ ParseIdle /\ StoreIdle /\ ToolIdle /\ AdapterIdle

Next ==
    \/ LoopStart
    \/ StreamCancelled
    \/ StreamRecv
    \/ ToolNext
    \/ ApprovalCancelled
    \/ ApprovalRecv
    \/ ApprovalClosed
    \/ ToolExecuted
    \/ Cancel
    \/ SendDecision
    \/ CloseApproval

Spec == Init /\ [][Next]_vars

----------------------------------------------------------------------------
(* Properties of the agent loop.                                           *)

Last(seq) == seq[Len(seq)]

\* the text of every TextToken delivered so far, concatenated
EmittedText ==
    LET toks == SelectSeq(events, LAMBDA e : e.type = "TextToken")
    IN  [i \in 1..Len(toks) |-> toks[i].text[1]]

\* the policy of the tool: it requires approval, or is not registered
Gated(name) == name \notin Registered \/ Policy[name]

Returned == pc = "returned"
\* the run returned and every send of the run was delivered
ReturnedOpen == pc = "returned" /\ sink_open

\* C1: a tool that requires approval (an unregistered name included) is
\* executed only if an AwaitingApproval was emitted for that very call and
\* an Allow or AllowAlways was then received for it, or an AllowAlways for
\* the same tool name was received earlier in the run.
C1_ApprovalGating ==
    \A i \in 1..Len(execLog) :
        LET e == execLog[i] IN
        Gated(e.call.name) =>
            \E j \in 1..Len(decisionLog) :
                LET d == decisionLog[j] IN
                /\ d.at < e.at
                /\ \/ /\ d.it = e.it
                      /\ d.idx = e.idx
                      /\ d.decision \in {"Allow", "AllowAlways"}
                      /\ events[d.at] = AwaitingApproval(e.call)
                   \/ /\ d.decision = "AllowAlways"
                      /\ d.call.name = e.call.name

\* an unregistered tool has been executed, and so has a gated call that was
\* not asked about itself
C1_Witness ==
    /\ \E i \in 1..Len(execLog) : execLog[i].call.name = "lookup"
    /\ \E i \in 1..Len(execLog) :
          /\ Gated(execLog[i].call.name)
          /\ \A j \in 1..Len(decisionLog) :
                ~(decisionLog[j].it = execLog[i].it /\ decisionLog[j].idx = execLog[i].idx)

\* C2: no tool execution starts after the cancellation token has been
\* triggered.
C2_NoExecuteAfterCancel ==
    \A i \in 1..Len(execLog) : ~execLog[i].cancelled

\* C3: once the token is triggered while the loop is suspended awaiting an
\* approval decision, no call is executed and no provider request is issued
\* any more, and the loop ends with Done carrying all text received.
C3_CancelWhileAwaitingApproval ==
    [][(pc = "await" /\ cancel_token) =>
          /\ execLog' = execLog
          /\ requests' = requests
          /\ pc' \in {"await", "returned"}
          /\ (pc' = "returned" /\ sink_open') =>
                Last(events') = DoneEvent(full_text, total_tokens_in, total_tokens_out)]_vars

\* C4: whenever the loop observes the cancellation, its terminal event is
\* Done carrying the text accumulated so far, never Error.
C4_CancelEndsWithDone ==
    (ReturnedOpen /\ cancelSeen # "no") =>
        /\ Last(events).type = "Done"
        /\ Last(events).text = EmittedText

\* C5: when cancellation interrupts the streaming of an iteration,
\* Done.full_content is the concatenation of every TextToken emitted so far.
C5_PartialTextKept ==
    (ReturnedOpen /\ cancelSeen = "stream") =>
        /\ Last(events).type = "Done"
        /\ Last(events).text = EmittedText

\* every one of the max_iterations answers asked for tools and its tool
\* round was completed
LimitExhausted == Len(messages) = 1 + 2 * max_iterations

\* C6: at most max_iterations provider requests are issued, and a run whose
\* provider still asks for tools after max_iterations requests ends with an
\* Error (the iteration limit unless the run was cancelled), never a Done.
C6_IterationBound ==
    /\ requests <= max_iterations
    /\ (ReturnedOpen /\ LimitExhausted) =>
           /\ Last(events).type = "Error"
           /\ ~cancel_token => Last(events).msg = "Reached maximum iterations"

C6_Witness ==
    /\ ReturnedOpen
    /\ LimitExhausted
    /\ max_iterations = MaxIterations
    /\ requests = max_iterations
    /\ ~cancel_token
    /\ Last(events) = ErrorEvent("Reached maximum iterations")

NoDenial == \A j \in 1..Len(decisionLog) : decisionLog[j].decision # "Deny"

\* C7: against the stub (ToolUse with one call for its first N answers,
\* then EndTurn), with max_iterations >= N+1, no cancellation and no
\* denial, the loop issues exactly N+1 requests, executes exactly N calls
\* and ends with Done; it never issues more than N+1 requests.
C7_StubRun ==
    (provider = "stub" /\ max_iterations >= stubN + 1) =>
        /\ requests <= stubN + 1
        /\ Len(execLog) <= stubN
        /\ (ReturnedOpen /\ ~cancel_token /\ approval_open /\ NoDenial) =>
              /\ requests = stubN + 1
              /\ Len(execLog) = stubN
              /\ Last(events).type = "Done"

C7_Witness ==
    /\ provider = "stub"
    /\ stubN >= 1
    /\ max_iterations >= stubN + 1
    /\ ReturnedOpen /\ ~cancel_token /\ approval_open /\ NoDenial
    /\ requests = stubN + 1
    /\ Len(execLog) = stubN
    /\ Last(events).type = "Done"
    /\ \E i \in 1..Len(execLog) : Gated(execLog[i].call.name)

----------------------------------------------------------------------------
(* parse_sse_stream: bytes, UTF-8, lines and frames.                       *)
(*                                                                         *)
(* A byte is a string naming it.  The field names of the wire format are   *)
(* abbreviated to one byte ("d" for data, "e" for event), and so is every  *)
(* JSON document of a provider's schema: a tag byte (an upper-case         *)
(* letter), followed for the documents that carry a string by the bytes    *)
(* of that string.  "C3" "A9" are the two bytes of the character U+00E9.   *)

LF == "\n"
CR == "\r"
SP == " "
Lead2 == {"C3"}              \* first byte of a two-byte character
Cont  == {"A9"}              \* continuation byte
StringBytes == {"a", "q", "{", "}", "C3", "A9"}
Whitespace == {SP, CR, LF}

MinOf(S) == CHOOSE x \in S : \A y \in S : x <= y

\* std::str::from_utf8(bytes): Utf8Error::valid_up_to(), or the length when Ok
RECURSIVE ValidFrom(_, _)
ValidFrom(bytes, i) ==
    IF i > Len(bytes) THEN Len(bytes)
    ELSE IF bytes[i] \in Lead2
         THEN IF i + 1 <= Len(bytes) /\ bytes[i + 1] \in Cont
              THEN ValidFrom(bytes, i + 2)
              ELSE i - 1
    ELSE IF bytes[i] \in Cont THEN i - 1
    ELSE ValidFrom(bytes, i + 1)

valid_up_to(bytes) == ValidFrom(bytes, 1)

\* decoded.replace("\r\n", "\n")
RECURSIVE ReplaceFrom(_, _)
ReplaceFrom(s, i) ==
    IF i > Len(s) THEN <<>>
    ELSE IF s[i] = CR /\ i < Len(s) /\ s[i + 1] = LF
         THEN ReplaceFrom(s, i + 1)
         ELSE <<s[i]>> \o ReplaceFrom(s, i + 1)

ReplaceCRLF(s) == ReplaceFrom(s, 1)

\* buffer.find("\n\n"): 0 for None, else the 1-based position
FindBlankLine(buffer) ==
    LET hits == {i \in 1..(Len(buffer) - 1) : buffer[i] = LF /\ buffer[i + 1] = LF}
    IN  IF hits = {} THEN 0 ELSE MinOf(hits)

\* str::lines(): split after each "\n"; the "\n" and a "\r" before it are
\* not part of the line; a last line without "\n" is kept as it is
RECURSIVE Lines(_)
Lines(text) ==
    IF text = <<>> THEN <<>>
    ELSE LET nl == {i \in 1..Len(text) : text[i] = LF}
         IN  IF nl = {} THEN <<text>>
             ELSE LET i == MinOf(nl)
                      raw == SubSeq(text, 1, i - 1)
                      line == IF raw # <<>> /\ raw[Len(raw)] = CR
                              THEN SubSeq(raw, 1, Len(raw) - 1) ELSE raw
                  IN  <<line>> \o Lines(SubSeq(text, i + 1, Len(text)))

StartsWith(s, prefix) ==
    Len(s) >= Len(prefix) /\ SubSeq(s, 1, Len(prefix)) = prefix

\* line.strip_prefix("data: "), else line.strip_prefix("data:")
StripData(line) ==
    IF StartsWith(line, <<"d", ":", SP>>) THEN Some(SubSeq(line, 4, Len(line)))
    ELSE IF StartsWith(line, <<"d", ":">>) THEN Some(SubSeq(line, 3, Len(line)))
    ELSE None

\* the payloads of a frame's data lines, in order
DataPayloads(event_text) ==
    LET ls == Lines(event_text)
        ds == SelectSeq(ls, LAMBDA l : StripData(l) # None)
    IN  [i \in 1..Len(ds) |-> StripData(ds[i])[1]]

RECURSIVE Flatten(_)
Flatten(ss) == IF ss = <<>> THEN <<>> ELSE Head(ss) \o Flatten(Tail(ss))

\* str::trim(), and the white space serde_json skips around a document
RECURSIVE Trim(_)
Trim(s) ==
    IF s = <<>> THEN s
    ELSE IF s[1] \in Whitespace THEN Trim(Tail(s))
    ELSE IF s[Len(s)] \in Whitespace THEN Trim(SubSeq(s, 1, Len(s) - 1))
    ELSE s

IsString(content) == \A i \in 1..Len(content) : content[i] \in StringBytes

EmptyObject == <<"{", "}">>

\* serde_json::from_str::<Value>(json).unwrap_or(Value::Object(Default::default()))
ParseArguments(json) ==
    IF /\ Len(json) >= 2
       /\ json[1] = "{"
       /\ json[Len(json)] = "}"
       /\ \A i \in 2..(Len(json) - 1) : json[i] \notin {"{", "}"}
       /\ valid_up_to(json) = Len(json)
    THEN json ELSE EmptyObject

----------------------------------------------------------------------------
(* StreamEvents emitted by a parser, and the state of the parser task.     *)

PEvent(type, id, name, text, args, tin, tout, sr) ==
    [type |-> type, id |-> id, name |-> name, text |-> text, args |-> args,
     tokens_in |-> tin, tokens_out |-> tout, stop_reason |-> sr]
PToken(text)              == PEvent("Token", "", "", text, <<>>, None, None, None)
PToolCallStart(id, name)  == PEvent("ToolCallStart", id, name, <<>>, <<>>, None, None, None)
PToolCallDelta(id, chunk) == PEvent("ToolCallDelta", id, "", chunk, <<>>, None, None, None)
PToolCallComplete(id, name, args) ==
    PEvent("ToolCallComplete", id, name, <<>>, args, None, None, None)
PDone(tin, tout, sr)      == PEvent("Done", "", "", <<>>, <<>>, tin, tout, sr)
PError(msg)               == PEvent("Error", "", "", <<msg>>, <<>>, None, None, None)

ParserInit(order) ==
    [byte_buf |-> <<>>, buffer |-> <<>>, out |-> <<>>, returned |-> FALSE,
     rx_open |-> TRUE, read_error |-> FALSE, send_failed |-> FALSE,
     tokens_in |-> None, tokens_out |-> None, stop_reason |-> None,
     current_tool_id |-> None, current_tool_name |-> None,
     current_tool_json |-> <<>>,
     last_tokens_in |-> None, last_tokens_out |-> None,
     has_tool_calls |-> FALSE, tool_accumulators |-> <<>>,
     drain_order |-> order, uuids |-> 0]

\* tx.send(ev).await whose result is looked at: on Err the parser returns
SendChecked(st, ev) ==
    IF st.rx_open THEN [st EXCEPT !.out = Append(@, ev)]
    ELSE [st EXCEPT !.returned = TRUE, !.send_failed = TRUE]

\* let _ = tx.send(ev).await
SendIgnored(st, ev) ==
    IF st.rx_open THEN [st EXCEPT !.out = Append(@, ev)]
    ELSE [st EXCEPT !.send_failed = TRUE]

\* a terminal event, then return
SendAndReturn(st, ev) == [SendIgnored(st, ev) EXCEPT !.returned = TRUE]

----------------------------------------------------------------------------
(* Claude: serde_json::from_str::<ClaudeStreamEvent>(&data).               *)
(*   M  message_start, usage {input_tokens: 1}                             *)
(*   B  content_block_start, tool_use {id: "t1", name: "lookup"}           *)
(*   T… content_block_delta, text_delta {text: …}                          *)
(*   J… content_block_delta, input_json_delta {partial_json: …}            *)
(*   S  content_block_stop                                                 *)
(*   D  message_delta {stop_reason: "tool_use"}, usage {output_tokens: 2}  *)
(*   F  message_delta {stop_reason: "end_turn"}, no usage                  *)
(*   N  message_delta {}, usage {} (output_tokens absent)                  *)
(*   E  message_stop        P  ping        R  error {message}              *)
(* Anything else, two documents back to back included, is an Err.          *)

Doc(kind, text) == [kind |-> kind, text |-> text]
ParseFailed == Doc("Err", <<>>)

ParseTagged(data, bare, stringed) ==
    LET w == Trim(data)
    IN  IF w = <<>> THEN ParseFailed
        ELSE IF w[1] \in bare /\ Len(w) = 1 THEN Doc(w[1], <<>>)
        ELSE IF w[1] \in stringed /\ IsString(Tail(w)) THEN Doc(w[1], Tail(w))
        ELSE ParseFailed

\* the MessageDelta of a document: `usage` (None, or Some of its
\* output_tokens) and delta.stop_reason
MessageDelta(ev) ==
    CASE ev.kind = "D" -> [usage |-> Some(Some(2)), stop_reason |-> Some("tool_use")]
      [] ev.kind = "F" -> [usage |-> None, stop_reason |-> Some("end_turn")]
      [] ev.kind = "N" -> [usage |-> Some(None), stop_reason |-> None]

\* match reason.as_str() { .. }
MapStopReason(reason) ==
    CASE reason = "end_turn" -> Some("EndTurn")
      [] reason = "tool_use" -> Some("ToolUse")
      [] reason = "max_tokens" -> Some("MaxTokens")
      [] OTHER -> None

\* the MessageDelta branch
ApplyMessageDelta(st, md) ==
    LET st1 == IF md.usage # None THEN [st EXCEPT !.tokens_out = md.usage[1]] ELSE st
    IN  IF md.stop_reason # None
        THEN [st1 EXCEPT !.stop_reason = MapStopReason(md.stop_reason[1])]
        ELSE st1

ParseClaude(data) ==
    ParseTagged(data, {"M", "B", "S", "D", "F", "N", "E", "P", "R"}, {"T", "J"})

HandleClaude(st, event_text) ==
    LET data == Flatten(DataPayloads(event_text))
        ev == ParseClaude(data)
    IN  IF data = <<>> THEN st
        ELSE CASE ev.kind = "M" -> [st EXCEPT !.tokens_in = Some(1)]
               [] ev.kind = "B" ->
                    SendChecked([st EXCEPT !.current_tool_id = Some("t1"),
                                           !.current_tool_name = Some("lookup"),
                                           !.current_tool_json = <<>>],
                                PToolCallStart("t1", "lookup"))
               [] ev.kind = "T" -> SendChecked(st, PToken(ev.text))
               [] ev.kind = "J" ->
                    LET acc == [st EXCEPT !.current_tool_json = @ \o ev.text]
                    IN  IF st.current_tool_id # None
                        THEN SendChecked(acc, PToolCallDelta(st.current_tool_id[1], ev.text))
                        ELSE acc
               [] ev.kind = "S" ->
                    LET taken == [st EXCEPT !.current_tool_id = None,
                                            !.current_tool_name = None]
                    IN  IF st.current_tool_id # None /\ st.current_tool_name # None
                        THEN SendChecked([taken EXCEPT !.current_tool_json = <<>>],
                                 PToolCallComplete(st.current_tool_id[1],
                                                   st.current_tool_name[1],
                                                   ParseArguments(st.current_tool_json)))
                        ELSE taken
               [] ev.kind \in {"D", "F", "N"} -> ApplyMessageDelta(st, MessageDelta(ev))
               [] ev.kind = "E" ->
                    SendAndReturn(st, PDone(st.tokens_in, st.tokens_out, st.stop_reason))
               [] ev.kind = "R" -> SendAndReturn(st, PError("provider error"))
               [] OTHER -> st

\* after the loop over the body: `send(Done {..})`
EndClaude(st) ==
    SendAndReturn(st, PDone(st.tokens_in, st.tokens_out, st.stop_reason))

----------------------------------------------------------------------------
(* Gemini: serde_json::from_str::<GeminiResponse>(&data).                  *)
(*   T… candidates[0].content.parts = [{text: …}]                          *)
(*   K  candidates[0].content.parts = [{functionCall: lookup {q}}]         *)
(*   U  usageMetadata {promptTokenCount: 1, candidatesTokenCount: 2}       *)
(*   V  usageMetadata {promptTokenCount: 3} (candidatesTokenCount absent)  *)
(*   R  error {message}                                                    *)

ParseGemini(data) == ParseTagged(data, {"K", "U", "V", "R"}, {"T"})

\* response.usage_metadata of a document
UsageMetadata(ev) ==
    CASE ev.kind = "U" -> [prompt_token_count |-> Some(1), candidates_token_count |-> Some(2)]
      [] ev.kind = "V" -> [prompt_token_count |-> Some(3), candidates_token_count |-> None]

\* `if let Some(usage) = &response.usage_metadata`
TrackUsage(st, usage) ==
    LET st1 == IF usage.prompt_token_count # None
               THEN [st EXCEPT !.last_tokens_in = usage.prompt_token_count] ELSE st
    IN  IF usage.candidates_token_count # None
        THEN [st1 EXCEPT !.last_tokens_out = usage.candidates_token_count] ELSE st1

StopReasonOf(has_tool_calls) ==
    IF has_tool_calls THEN Some("ToolUse") ELSE Some("EndTurn")

\* uuid::Uuid::new_v4(): the n-th identifier drawn in a run
Uuid(n) == IF n = 1 THEN "uuid-1" ELSE IF n = 2 THEN "uuid-2" ELSE "uuid-n"

HandleGemini(st, event_text) ==
    LET data == Flatten(DataPayloads(event_text))
        ev == ParseGemini(data)
    IN  IF data = <<>> THEN st
        ELSE CASE ev.kind = "T" -> SendChecked(st, PToken(ev.text))
               [] ev.kind = "K" ->
                    SendChecked([st EXCEPT !.has_tool_calls = TRUE,
                                           !.uuids = @ + 1],
                                PToolCallComplete(Uuid(st.uuids + 1), "lookup",
                                                  <<"{", "q", "}">>))
               [] ev.kind \in {"U", "V"} -> TrackUsage(st, UsageMetadata(ev))
               [] ev.kind = "R" -> SendAndReturn(st, PError("provider error"))
               [] OTHER -> st

EndGemini(st) ==
    SendAndReturn(st, PDone(st.last_tokens_in, st.last_tokens_out,
                            StopReasonOf(st.has_tool_calls)))

----------------------------------------------------------------------------
(* Local: serde_json::from_str::<OpenAiStreamChunk>(payload), per line.    *)
(*   T… choices[0].delta.content = …                                       *)
(*   A  choices[0].delta.tool_calls =                                      *)
(*        [{index: 0, id: "t1", function: {name: "lookup", arguments: ""}}]*)
(*   G… … [{index: 0, function: {arguments: …}}]                           *)
(*   C  … [{index: 1, id: "t2", function: {name: "file_read",              *)
(*                                         arguments: ""}}]                *)
(*   H… … [{index: 1, function: {arguments: …}}]                           *)
(*   I  … [{index: 0, id: "t1"}]                                           *)
(*   L  … [{index: 0, function: {name: "lookup"}}]                         *)
(*   Y  choices = [], usage {prompt_tokens: 1, completion_tokens: 2}       *)
(*   Z  the sentinel [DONE], which is no JSON document                     *)

ParseLocal(payload) ==
    ParseTagged(payload, {"A", "C", "I", "L", "Y"}, {"T", "G", "H"})

\* the OpenAiStreamToolCall of a document
StreamToolCall(ev) ==
    CASE ev.kind = "A" -> [index |-> 0, id |-> Some("t1"), name |-> Some("lookup"),
                           arguments |-> Some(<<>>)]
      [] ev.kind = "G" -> [index |-> 0, id |-> None, name |-> None,
                           arguments |-> Some(ev.text)]
      [] ev.kind = "C" -> [index |-> 1, id |-> Some("t2"), name |-> Some("file_read"),
                           arguments |-> Some(<<>>)]
      [] ev.kind = "H" -> [index |-> 1, id |-> None, name |-> None,
                           arguments |-> Some(ev.text)]
      [] ev.kind = "I" -> [index |-> 0, id |-> Some("t1"), name |-> None,
                           arguments |-> None]
      [] ev.kind = "L" -> [index |-> 0, id |-> None, name |-> Some("lookup"),
                           arguments |-> None]

AccPos(accs, index) ==
    LET hits == {i \in 1..Len(accs) : accs[i].index = index}
    IN  IF hits = {} THEN 0 ELSE MinOf(hits)

\* the body of `for tc in tool_calls`
ApplyToolCall(st, tc) ==
    LET fresh == AccPos(st.tool_accumulators, tc.index) = 0
        \* tool_accumulators.entry(tc.index).or_insert_with(..)
        st1 == IF fresh
               THEN [st EXCEPT !.has_tool_calls = TRUE,
                               !.tool_accumulators = Append(@,
                                   [index |-> tc.index,
                                    id |-> IF tc.id = None THEN "" ELSE tc.id[1],
                                    name |-> "", arguments |-> <<>>])]
               ELSE st
        pos == AccPos(st1.tool_accumulators, tc.index)
        \* acc.id.clone_from(id)
        st2 == IF tc.id # None /\ tc.id[1] # ""
               THEN [st1 EXCEPT !.tool_accumulators[pos].id = tc.id[1]] ELSE st1
        acc2 == st2.tool_accumulators[pos]
        \* ToolCallStart once the name is known
        named == tc.name # None /\ tc.name[1] # ""
        st3 == IF named /\ acc2.name = ""
               THEN SendIgnored(st2, PToolCallStart(acc2.id, tc.name[1])) ELSE st2
        st4 == IF named
               THEN [st3 EXCEPT !.tool_accumulators[pos].name = tc.name[1]] ELSE st3
        \* acc.arguments.push_str(args); ToolCallDelta
        st5 == IF tc.arguments # None
               THEN [st4 EXCEPT !.tool_accumulators[pos].arguments = @ \o tc.arguments[1]]
               ELSE st4
    IN  IF tc.arguments # None /\ tc.arguments[1] # <<>>
        THEN SendIgnored(st5, PToolCallDelta(acc2.id, tc.arguments[1]))
        ELSE st5

\* HashMap::drain(): the order is the map's, here by index up or down
Drained(accs, order) ==
    LET lo == SelectSeq(accs, LAMBDA a : a.index = 0)
        hi == SelectSeq(accs, LAMBDA a : a.index = 1)
    IN  IF order = "up" THEN lo \o hi ELSE hi \o lo

RECURSIVE SendCompletes(_, _)
SendCompletes(st, accs) ==
    IF accs = <<>> THEN st
    ELSE SendCompletes(
             SendIgnored(st, PToolCallComplete(Head(accs).id, Head(accs).name,
                                               ParseArguments(Head(accs).arguments))),
             Tail(accs))

\* the [DONE] branch
LocalDone(st) ==
    LET emitted == SendCompletes(st, Drained(st.tool_accumulators, st.drain_order))
    IN  SendAndReturn([emitted EXCEPT !.tool_accumulators = <<>>],
                      PDone(None, None, StopReasonOf(st.has_tool_calls)))

HandleLocalLine(st, payload) ==
    IF Trim(payload) = <<"Z">> THEN LocalDone(st)
    ELSE LET ev == ParseLocal(payload)
         IN  CASE ev.kind = "T" ->
                    IF ev.text # <<>> THEN SendChecked(st, PToken(ev.text)) ELSE st
               [] ev.kind \in {"A", "G", "C", "H", "I", "L"} ->
                    ApplyToolCall(st, StreamToolCall(ev))
               \* no choice; `usage` is no field of OpenAiStreamChunk
               [] ev.kind = "Y" -> st
               [] OTHER -> st

RECURSIVE HandleLocalLines(_, _)
HandleLocalLines(st, payloads) ==
    IF payloads = <<>> \/ st.returned THEN st
    ELSE HandleLocalLines(HandleLocalLine(st, Head(payloads)), Tail(payloads))

HandleLocal(st, event_text) == HandleLocalLines(st, DataPayloads(event_text))

\* after the loop over the body: Done, the accumulators are left as they are
EndLocal(st) ==
    SendAndReturn(st, PDone(None, None, StopReasonOf(st.has_tool_calls)))

----------------------------------------------------------------------------
(* The loop over the chunks of the body, common to the three parsers.      *)

Parsers == {"claude", "gemini", "local"}

HandleFrame(p, st, event_text) ==
    CASE p = "claude" -> HandleClaude(st, event_text)
      [] p = "gemini" -> HandleGemini(st, event_text)
      [] p = "local"  -> HandleLocal(st, event_text)

\* while let Some(event_end) = buffer.find("\n\n")
RECURSIVE ProcessFrames(_, _)
ProcessFrames(p, st) ==
    IF st.returned THEN st
    ELSE LET event_end == FindBlankLine(st.buffer)
         IN  IF event_end = 0 THEN st
             ELSE ProcessFrames(p,
                    HandleFrame(p,
                        [st EXCEPT !.buffer = SubSeq(@, event_end + 2, Len(@))],
                        SubSeq(st.buffer, 1, event_end - 1)))

\* one turn of `while let Some(chunk_result) = stream.next().await`, Ok(bytes)
Feed(p, st, bytes) ==
    LET byte_buf == st.byte_buf \o bytes
        upto == valid_up_to(byte_buf)
    IN  IF upto = 0 /\ byte_buf # <<>>
        THEN [st EXCEPT !.byte_buf = byte_buf]
        ELSE ProcessFrames(p,
                [st EXCEPT !.byte_buf = SubSeq(byte_buf, upto + 1, Len(byte_buf)),
                           !.buffer = @ \o ReplaceCRLF(SubSeq(byte_buf, 1, upto))])

\* the task ending without the Done after its loop
EndWithoutDone(p, st) == [st EXCEPT !.returned = TRUE]

\* stream.next() yields None
EndOfStream(p, st) ==
    CASE p = "claude" -> EndClaude(st)
      [] p = "gemini" -> EndGemini(st)
      [] p = "local"  -> EndLocal(st)

----------------------------------------------------------------------------
(* Response bodies: frames of the wire format carrying a provider's        *)
(* documents in an order the provider can send them.                       *)

MaxFrames == 3      \* frames in a response body
MaxChunk  == 2      \* bytes in a chunk that is not the whole remainder

ClaudeDocs ==
    [M |-> <<"M">>, T |-> <<"T", "C3", "A9">>, Ta |-> <<"T", "a">>, B |-> <<"B">>,
     J1 |-> <<"J", "{", "q">>, J2 |-> <<"J", "}">>, S |-> <<"S">>,
     D |-> <<"D">>, F |-> <<"F">>, N |-> <<"N">>, E |-> <<"E">>, R |-> <<"R">>, Q |-> <<"?">>]

ClaudeFollows ==
    [Start |-> {"M", "T", "B"},
     M |-> {"T", "B"}, T |-> {"T", "B", "D", "E", "Q"}, B |-> {"J1", "S"},
     J1 |-> {"J2", "S"}, J2 |-> {"S"}, S |-> {"D", "E"}, D |-> {"E", "N"},
     N |-> {"E"}, E |-> {"T"}, R |-> {"T"}, Q |-> {"R"}]

GeminiDocs ==
    [T |-> <<"T", "C3", "A9">>, Ta |-> <<"T", "a">>, K |-> <<"K">>, U |-> <<"U">>,
     V |-> <<"V">>,
     R |-> <<"R">>, Q |-> <<"?">>]

GeminiFollows ==
    [Start |-> {"T", "K", "R"},
     T |-> {"T", "K", "U", "Q"}, K |-> {"T", "K", "U"}, U |-> {"T", "V"},
     V |-> {"T"}, R |-> {"T"}, Q |-> {"U"}]

LocalDocs ==
    [T |-> <<"T", "C3", "A9">>, Ta |-> <<"T", "a">>, T0 |-> <<"T">>, A |-> <<"A">>,
     G1 |-> <<"G", "{", "q">>, G2 |-> <<"G", "}">>, C |-> <<"C">>,
     H |-> <<"H", "{", "}">>, I |-> <<"I">>, L |-> <<"L">>, Y |-> <<"Y">>,
     Z |-> <<"Z">>, Q |-> <<"?">>]

LocalFollows ==
    [Start |-> {"T", "T0", "A"},
     T |-> {"T", "A", "Y", "Z", "Q"}, T0 |-> {"T"}, A |-> {"G1", "C", "Z"},
     G1 |-> {"G2", "Z"}, G2 |-> {"Z"}, C |-> {"H", "Z"}, H |-> {"Z"},
     Y |-> {"Z"}, Z |-> {"T"}, Q |-> {"Z"}]

DocsOf(p) ==
    CASE p = "claude" -> ClaudeDocs [] p = "gemini" -> GeminiDocs [] p = "local" -> LocalDocs

FollowsOf(p) ==
    CASE p = "claude" -> ClaudeFollows [] p = "gemini" -> GeminiFollows
      [] p = "local" -> LocalFollows

\* the documents that end a message: message_stop, error, [DONE]
Terminators == {"E", "R", "Z"}

RECURSIVE PathsOf(_, _)
PathsOf(p, n) ==
    IF n = 0 THEN {<<>>}
    ELSE IF n = 1 THEN {<<k>> : k \in FollowsOf(p).Start}
    ELSE UNION {{Append(path, k) : k \in FollowsOf(p)[path[Len(path)]]} :
                path \in PathsOf(p, n - 1)}

EndOfLines == {<<LF>>, <<CR, LF>>}

\* the documents that travel with an `event:` line and `data:` without a space
WithEventLine == {"M", "U", "T0"}

Frame(key, doc, eol) ==
    IF key \in WithEventLine
    THEN <<"e", ":", "x">> \o eol \o <<"d", ":">> \o doc \o eol \o eol
    ELSE <<"d", ":", SP>> \o doc \o eol \o eol

Encode(p, path, eol) ==
    Flatten([i \in 1..Len(path) |-> Frame(path[i], DocsOf(p)[path[i]], eol)])

\* cut: the body stops after the last data line, before its blank line
BodyOf(p, path, eol, cut) ==
    LET whole == Encode(p, path, eol)
    IN  [path |-> path, eol |-> eol, cut |-> cut,
         bytes |-> IF cut THEN SubSeq(whole, 1, Len(whole) - Len(eol)) ELSE whole]

Bodies(p) ==
    {BodyOf(p, path, eol, cut) :
        path \in UNION {PathsOf(p, n) : n \in 1..MaxFrames},
        eol \in EndOfLines, cut \in BOOLEAN}

----------------------------------------------------------------------------
(* The parser task.                                                        *)

AgentIdle ==
    /\ pc = "idle"
    /\ max_iterations = 0
    /\ auto_approve_read_tools = FALSE
    /\ iteration = 0
    /\ total_tokens_in = None
    /\ total_tokens_out = None
    /\ full_text = <<>>
    /\ iteration_text = <<>>
    /\ tool_calls = <<>>
    /\ tool_results = <<>>
    /\ call_idx = 1
    /\ auto_approved_tools = {}
    /\ messages = <<>>
    /\ cancel_token = FALSE
    /\ approval_rx = <<>>
    /\ approval_open = TRUE
    /\ sink_open = TRUE
    /\ events = <<>>
    /\ provider = "none" /\ stubN = 0
    /\ requests = 0
    /\ execLog = <<>>
    /\ decisionLog = <<>>
    /\ cancelSeen = "no"
    /\ usageLog = NoUsage

DrainOrders(p) == IF p = "local" THEN {"up", "down"} ELSE {"up"}

InitParse ==
    /\ AgentIdle
    /\ StoreIdle
    /\ ToolIdle
    /\ AdapterIdle
    /\ ppc = "read"
    /\ parser \in Parsers
    /\ body \in Bodies(parser)
    /\ rest = body.bytes
    /\ \E order \in DrainOrders(parser) : pst = ParserInit(order)

\* stream.next() yields Ok(bytes): some bytes of the body, or all that is left
ReadChunk ==
    /\ ppc = "read"
    /\ rest # <<>>
    /\ \E n \in (1..MaxChunk) \cup {Len(rest)} :
          /\ n <= Len(rest)
          /\ pst' = Feed(parser, pst, SubSeq(rest, 1, n))
          /\ rest' = SubSeq(rest, n + 1, Len(rest))
          /\ ppc' = IF pst'.returned THEN "finished" ELSE "read"
    /\ UNCHANGED <<parser, body, agentVars, storeVars, toolVars, adapterVars>>

\* stream.next() yields None
EndOfBody ==
    /\ ppc = "read"
    /\ rest = <<>>
    /\ pst' = EndOfStream(parser, pst)
    /\ ppc' = "finished"
    /\ UNCHANGED <<parser, body, rest, agentVars, storeVars, toolVars, adapterVars>>

\* stream.next() yields Err(e)
ReadError ==
    /\ ppc = "read"
    /\ pst' = SendAndReturn([pst EXCEPT !.read_error = TRUE], PError("Stream error"))
    /\ ppc' = "finished"
    /\ UNCHANGED <<parser, body, rest, agentVars, storeVars, toolVars, adapterVars>>

\* the receiving half of the channel is dropped
DropStreamReceiver ==
    /\ ppc = "read"
    /\ pst.rx_open
    /\ pst' = [pst EXCEPT !.rx_open = FALSE]
    /\ UNCHANGED <<ppc, parser, body, rest, agentVars, storeVars, toolVars, adapterVars>>

NextParse ==
    \/ ReadChunk
    \/ EndOfBody
    \/ ReadError
    \/ DropStreamReceiver

SpecParse == InitParse /\ [][NextParse]_vars

----------------------------------------------------------------------------
(* Properties of the parsers.                                              *)

\* the run of the same parser over the same body delivered as one chunk
SingleChunk(p, order, bytes) ==
    LET st == Feed(p, ParserInit(order), bytes)
    IN  IF st.returned THEN st ELSE EndOfStream(p, st)

\* the parser read the whole body and nothing else went wrong
RanToEnd == ppc = "finished" /\ pst.rx_open /\ ~pst.read_error

\* every frame has its blank line and the message has its terminator
CompleteBody ==
    /\ ~body.cut
    /\ parser \in {"claude", "local"} => Last(body.path) \in {"E", "Z"}

\* C8: for a complete response body, the events emitted under any splitting
\* of its bytes into chunks are the events emitted when the body arrives as
\* one chunk.
C8_ChunkingInvariance ==
    (RanToEnd /\ CompleteBody) =>
        pst.out = SingleChunk(parser, pst.drain_order, body.bytes).out

IsTerminal(ev) == ev.type \in {"Done", "Error"}

\* the position at which the tool call started at position i is closed:
\* its ToolCallComplete, the next start under the same id, or the terminal
CloseOf(out, i) ==
    MinOf({j \in (i + 1)..Len(out) :
              \/ IsTerminal(out[j])
              \/ out[j].type \in {"ToolCallComplete", "ToolCallStart"} /\ out[j].id = out[i].id})

FragmentsOf(out, i, j) ==
    LET ds == SelectSeq(SubSeq(out, i + 1, j - 1),
                        LAMBDA ev : ev.type = "ToolCallDelta" /\ ev.id = out[i].id)
    IN  Flatten([k \in 1..Len(ds) |-> ds[k].text])

\* C9: in the Claude and Local parsers every tool call whose start was
\* emitted gets exactly one ToolCallComplete before the Done, with the parse
\* of its concatenated fragments (or {}) as arguments, whether the stream
\* ends with its terminator or by end-of-body.
C9_EveryStartedCallCompletes ==
    (RanToEnd /\ parser \in {"claude", "local"} /\ Last(pst.out).type = "Done") =>
        \A i \in 1..Len(pst.out) :
            pst.out[i].type = "ToolCallStart" =>
                LET j == CloseOf(pst.out, i)
                IN  /\ pst.out[j].type = "ToolCallComplete"
                    /\ pst.out[j].name = pst.out[i].name
                    /\ pst.out[j].args = ParseArguments(FragmentsOf(pst.out, i, j))

Unterminated == \A i \in 1..Len(body.path) : body.path[i] \notin Terminators

\* C10: a parser run whose body ends with the sink open emits exactly one
\* terminal event, Done or Error, as its last event; a body without any
\* end-of-message frame or sentinel still gets a Done.
C10_OneTerminalLast ==
    (ppc = "finished" /\ pst.rx_open) =>
        /\ pst.out # <<>>
        /\ IsTerminal(Last(pst.out))
        /\ \A i \in 1..(Len(pst.out) - 1) : ~IsTerminal(pst.out[i])
        /\ (~pst.read_error /\ Unterminated) => Last(pst.out).type = "Done"

C10_Witness ==
    /\ RanToEnd
    /\ Unterminated
    /\ body.cut
    /\ rest = <<>>
    /\ Len(pst.out) >= 2
    /\ Last(pst.out).type = "Done"
    /\ \A i \in 1..(Len(pst.out) - 1) : ~IsTerminal(pst.out[i])

\* the body holds a complete provider error frame, and no frame that ends
\* the message comes before it
ErrorFrameFirst ==
    /\ parser \in {"claude", "gemini"}
    /\ ~body.cut
    /\ \E i \in 1..Len(body.path) :
          /\ body.path[i] = "R"
          /\ \A j \in 1..(i - 1) : body.path[j] \notin Terminators

\* C11: a transport read error or a provider error frame makes the parser
\* emit exactly one Error and halt: the Error is the last event emitted and
\* no further chunk is read.
C11_FailureEmitsOneError ==
    /\ \A i \in 1..Len(pst.out) :
          pst.out[i].type = "Error" => (i = Len(pst.out) /\ ppc = "finished")
    /\ (ppc = "finished" /\ pst.rx_open /\ pst.read_error) =>
          Last(pst.out) = PError("Stream error")
    /\ (RanToEnd /\ ErrorFrameFirst) => Last(pst.out).type = "Error"

\* C12: once a send to the event sink has failed because the consumer is
\* gone, the parser has stopped: it handles no further frame and reads no
\* further chunk.
C12_StopOnFailedSend == pst.send_failed => ppc = "finished"

----------------------------------------------------------------------------
(* Further properties of the agent loop.                                   *)

\* C13: the first failed send to the AgentEvent sink makes the loop return
\* silently: with that step and after it no event is emitted, no tool is
\* executed and no provider request is issued.
C13_SilentReturn ==
    [][~sink_open' =>
          /\ pc' = "returned"
          /\ events' = events
          /\ execLog' = execLog
          /\ requests' = requests]_vars

\* the send of ToolCompleted failed while a further call of the iteration
\* was still to be resolved
C13_Witness ==
    /\ pc = "returned"
    /\ ~sink_open
    /\ events # <<>>
    /\ Last(events).type = "ToolExecuting"
    /\ call_idx < Len(tool_calls)
    /\ Len(execLog) = 1

\* a step of the loop that ends the run with its terminal event delivered
TerminalStep ==
    /\ Next
    /\ pc' = "returned"
    /\ sink_open'
    /\ events' # events
    /\ Last(events').type \in {"Done", "Error"}

\* C14: whenever the token is triggered while the loop is suspended on a
\* stream event, on an approval decision or on a tool execution, the loop
\* can go to its terminal event without the suspended operation completing.
C14_CancelRacesEverySuspension ==
    (cancel_token /\ sink_open /\ pc \in {"stream", "await", "exec"}) =>
        ENABLED TerminalStep

Denials == {j \in 1..Len(decisionLog) : decisionLog[j].decision = "Deny"}

\* no execution was started for a call that was denied
NoDeniedCallExecuted ==
    \A j \in Denials : \A i \in 1..Len(execLog) :
        ~(execLog[i].it = decisionLog[j].it /\ execLog[i].idx = decisionLog[j].idx)

\* C15: on Deny the call is not executed: no event is emitted for it and no
\* execution is started, the error result with the call's id and the fixed
\* text is recorded for it, and the loop goes on with the next call of the
\* iteration.
C15_DenyIsAnErrorResult ==
    [][/\ (decisionLog' # decisionLog /\ Last(decisionLog').decision = "Deny") =>
             /\ tool_results' = Append(tool_results,
                   [call_id |-> tool_calls[call_idx].id,
                    content |-> "Tool call denied by user",
                    is_error |-> TRUE])
             /\ events' = events
             /\ execLog' = execLog
             /\ requests' = requests
             /\ call_idx' = call_idx + 1
             /\ pc' = "tools"
       /\ NoDeniedCallExecuted']_vars

\* a call was denied, a later call of the same iteration was executed, and
\* the next provider request was issued with the denial among the results
C15_Witness ==
    \E j \in Denials :
        LET d == decisionLog[j] IN
        /\ requests > d.it
        /\ Len(messages) >= 2 * d.it + 1
        /\ messages[2 * d.it + 1].tool_results[d.idx] =
              [call_id |-> d.call.id, content |-> "Tool call denied by user",
               is_error |-> TRUE]
        /\ \E i \in 1..Len(execLog) : execLog[i].it = d.it /\ execLog[i].idx > d.idx

AllowedAlwaysBefore(name, at) ==
    \E j \in 1..Len(decisionLog) :
        /\ decisionLog[j].decision = "AllowAlways"
        /\ decisionLog[j].call.name = name
        /\ decisionLog[j].at < at

\* C16: after an AllowAlways for a tool name no later call to that name in
\* the run is preceded by AwaitingApproval; without an AllowAlways (after a
\* plain Allow included) a call to a tool that requires approval is executed
\* only right after its own AwaitingApproval; and before any decision the
\* auto-approved set holds no tool that requires approval.
C16_AllowAlwaysLasts ==
    /\ \A p \in 1..Len(events) :
          events[p].type = "AwaitingApproval" =>
              ~AllowedAlwaysBefore(events[p].call.name, p)
    /\ \A i \in 1..Len(execLog) :
          LET e == execLog[i] IN
          (Gated(e.call.name) /\ ~AllowedAlwaysBefore(e.call.name, e.at)) =>
              (e.at > 1 /\ events[e.at - 1] = AwaitingApproval(e.call))
    /\ decisionLog = <<>> => \A n \in auto_approved_tools : ~Gated(n)

\* two calls to shell_execute: AllowAlways for the first, the second executed
\* without being asked about
C16_Witness ==
    /\ Len(execLog) = 2
    /\ execLog[1].call.name = "shell_execute"
    /\ execLog[2].call.name = "shell_execute"
    /\ Len(decisionLog) = 1
    /\ decisionLog[1].decision = "AllowAlways"
    /\ Len(SelectSeq(events, LAMBDA ev : ev.type = "AwaitingApproval")) = 1
    /\ events[execLog[2].at - 1].type # "AwaitingApproval"

AllowedAlways ==
    {decisionLog[j].call.name :
        j \in {k \in 1..Len(decisionLog) : decisionLog[k].decision = "AllowAlways"}}

\* C17: the auto-approved set holds a tool that requires approval only if an
\* AllowAlways for that name was received earlier in the run; apart from
\* those names it holds, when auto_approve_read_tools is set, exactly the
\* registered tools whose policy does not require approval, and nothing
\* when the flag is not set.
C17_AutoApprovedSet ==
    /\ \A n \in auto_approved_tools : Gated(n) => n \in AllowedAlways
    /\ auto_approved_tools =
          (IF auto_approve_read_tools THEN {n \in Registered : ~Policy[n]} ELSE {})
          \cup AllowedAlways

C17_Witness ==
    /\ auto_approve_read_tools
    /\ "file_read" \in auto_approved_tools
    /\ "shell_execute" \in auto_approved_tools
    /\ "shell_execute" \in AllowedAlways
    /\ "lookup" \notin auto_approved_tools

\* the tool rounds appended to the message list so far
Rounds == 1..((Len(messages) - 1) \div 2)

ReceivedCalls ==
    LET rs == SelectSeq(events, LAMBDA ev : ev.type = "ToolCallReceived")
    IN  [i \in 1..Len(rs) |-> rs[i].call]

\* C18: every iteration that resolves tool calls appends exactly two
\* messages: an assistant message with the iteration's text and all its tool
\* calls, then a user message with exactly one result per call, in call
\* order, each with its call's id; so a tool_results message always follows
\* an assistant message bearing tool_calls.
C18_TwoTurnsPerRound ==
    /\ pc = "start" => Len(messages) = 1 + 2 * iteration
    /\ pc \in {"stream", "tools", "await", "exec"} =>
          Len(messages) = 1 + 2 * (iteration - 1)
    /\ pc = "returned" =>
          Len(messages) \in {1 + 2 * iteration, 1 + 2 * (iteration - 1)} \ {-1}
    /\ \A k \in Rounds :
          LET a == messages[2 * k]
              u == messages[2 * k + 1]
          IN  /\ a.role = "assistant"
              /\ a.tool_calls # <<>>
              /\ a.tool_results = <<>>
              /\ u.role = "user"
              /\ u.content = <<>>
              /\ u.tool_calls = <<>>
              /\ Len(u.tool_results) = Len(a.tool_calls)
              /\ \A i \in 1..Len(a.tool_calls) :
                    u.tool_results[i].call_id = a.tool_calls[i].id
    /\ \A m \in 1..Len(messages) :
          messages[m].tool_results # <<>> =>
              (m > 1 /\ messages[m - 1].role = "assistant"
                     /\ messages[m - 1].tool_calls # <<>>)
    /\ (pc = "start" /\ sink_open) =>
          /\ Flatten([k \in Rounds |-> messages[2 * k].content]) = EmittedText
          /\ Flatten([k \in Rounds |-> messages[2 * k].tool_calls]) = ReceivedCalls

\* a round of two calls, one denied and one whose execution failed
C18_Witness ==
    /\ Len(messages) >= 3
    /\ Len(messages[2].tool_calls) = 2
    /\ \E i \in 1..2 : messages[3].tool_results[i].content = "Tool call denied by user"
    /\ \E i \in 1..2 : messages[3].tool_results[i].content = "failed"
    /\ requests = 2

RECURSIVE SumOf(_)
SumOf(values) == IF values = <<>> THEN 0 ELSE Head(values) + SumOf(Tail(values))

\* the sum of the values the iterations reported, None if none did
TotalOf(reported) == IF reported = <<>> THEN None ELSE Some(SumOf(reported))

\* the stream of the current iteration has ended with a stop reason other
\* than ToolUse, or with no tool call
FinalAnswer ==
    /\ iteration >= 1
    /\ usageLog.finished = iteration
    /\ (~usageLog.tool_use \/ tool_calls = <<>>)

\* C19: an iteration that ends with a stop reason other than ToolUse, or
\* with no tool calls, executes no tool and ends the run with Done carrying
\* the text of all iterations and, for tokens_in and tokens_out, the sum of
\* the values the iterations reported (None if none reported one).
C19_FinalAnswerDone ==
    FinalAnswer =>
        /\ pc = "returned"
        /\ \A i \in 1..Len(execLog) : execLog[i].it # iteration
        /\ sink_open =>
              Last(events) =
                  DoneEvent(EmittedText, TotalOf(usageLog.tokens_in),
                            TotalOf(usageLog.tokens_out))

\* the second answer carried a tool call but did not stop for tool use
C19_Witness ==
    /\ FinalAnswer
    /\ ReturnedOpen
    /\ iteration = 2
    /\ tool_calls # <<>>
    /\ ~usageLog.tool_use
    /\ Len(execLog) = 1
    /\ Last(events).tokens_in = Some(2)
    /\ Last(events).tokens_out = Some(4)

UnknownNames == ToolNames \ Registered

\* the two registry functions on a name that is not registered
UnknownIsGatedAndFails ==
    /\ \A n \in UnknownNames : requires_approval(n)
    /\ \A n \in UnknownNames : \A id \in {CallIds[k] : k \in 1..Len(CallIds)} :
          \A r \in ExecuteResults([id |-> id, name |-> n]) :
              r.is_error /\ r.call_id = id

\* every execution of an unregistered call came right after its
\* AwaitingApproval, or after an AllowAlways for its name
UnknownExecutedAfterApproval ==
    \A i \in 1..Len(execLog) :
        LET e == execLog[i] IN
        e.call.name \in UnknownNames =>
            \/ AllowedAlwaysBefore(e.call.name, e.at)
            \/ (e.at > 1 /\ events[e.at - 1] = AwaitingApproval(e.call))

\* C20: for a name that is not registered requires_approval is true and
\* execute yields an error result with the call's id; in the loop such a
\* call is executed only after approval, and its error result is recorded
\* as any other result, the loop going on with the next call.
C20_UnknownTool ==
    [][/\ UnknownIsGatedAndFails
       /\ UnknownExecutedAfterApproval'
       /\ (pc = "exec" /\ tool_calls[call_idx].name \in UnknownNames
             /\ pc' # pc /\ sink_open') =>
             /\ pc' = "tools"
             /\ call_idx' = call_idx + 1
             /\ Len(tool_results') = Len(tool_results) + 1
             /\ Last(tool_results').is_error
             /\ Last(tool_results').call_id = tool_calls[call_idx].id
             /\ Last(events') = ToolCompleted(tool_calls[call_idx], Last(tool_results'))]_vars

\* an unregistered tool was asked about, allowed and executed, and the next
\* request was issued with its error result in the conversation
C20_Witness ==
    /\ Len(execLog) >= 1
    /\ execLog[1].call.name \in UnknownNames
    /\ Len(decisionLog) >= 1
    /\ decisionLog[1].decision = "Allow"
    /\ requests = 2
    /\ Len(messages) = 3
    /\ messages[3].tool_results[1].is_error
    /\ messages[3].tool_results[1].call_id = messages[2].tool_calls[1].id
    /\ messages[2].tool_calls[1].name \in UnknownNames

----------------------------------------------------------------------------
(* Further properties of the parsers.                                      *)

\* the usage values a document carries: input and output counter
Carried(p, key) ==
    CASE p = "claude" /\ key = "M" -> [tokens_in |-> Some(1), tokens_out |-> None]
      [] p = "claude" /\ key = "D" -> [tokens_in |-> None, tokens_out |-> Some(2)]
      [] p = "gemini" /\ key = "U" -> [tokens_in |-> Some(1), tokens_out |-> Some(2)]
      [] p = "gemini" /\ key = "V" -> [tokens_in |-> Some(3), tokens_out |-> None]
      [] p = "local" /\ key = "Y"  -> [tokens_in |-> Some(1), tokens_out |-> Some(2)]
      [] OTHER -> [tokens_in |-> None, tokens_out |-> None]

\* the frames of a body up to its first terminator
RECURSIVE Handled(_)
Handled(path) ==
    IF path = <<>> THEN <<>>
    ELSE IF Head(path) \in Terminators THEN <<Head(path)>>
    ELSE <<Head(path)>> \o Handled(Tail(path))

\* the most recent non-null value of a counter in a sequence of frames
RECURSIVE MostRecent(_, _, _)
MostRecent(p, path, counter) ==
    IF path = <<>> THEN None
    ELSE IF Carried(p, Last(path))[counter] # None THEN Carried(p, Last(path))[counter]
    ELSE MostRecent(p, SubSeq(path, 1, Len(path) - 1), counter)

\* C21: over a body of whole frames with LF line endings, the tokens_in and
\* tokens_out of the Done are the most recent non-null usage values carried
\* by the frames of the stream: a later null or absent value clears nothing
\* and a counter is null only if no frame carried it.
C21_DoneReportsLatestUsage ==
    (RanToEnd /\ ~body.cut /\ body.eol = <<LF>> /\ Last(pst.out).type = "Done") =>
        /\ Last(pst.out).tokens_in = MostRecent(parser, Handled(body.path), "tokens_in")
        /\ Last(pst.out).tokens_out = MostRecent(parser, Handled(body.path), "tokens_out")

----------------------------------------------------------------------------
(* The Claude parser over the stream of one tool call.                     *)

MaxFragments == 2   \* input_json_delta frames of the tool call

\* the i-th input_json_delta of the call
FragmentKey(i) == IF i % 2 = 1 THEN "J1" ELSE "J2"

\* content_block_start, k fragments, content_block_stop, message_delta
\* with stop_reason tool_use, message_stop
ToolUsePath(k) ==
    <<"B">> \o [i \in 1..k |-> FragmentKey(i)] \o <<"S", "D", "E">>

InitToolUse ==
    /\ AgentIdle
    /\ StoreIdle
    /\ ToolIdle
    /\ AdapterIdle
    /\ ppc = "read"
    /\ parser = "claude"
    /\ body \in {BodyOf("claude", ToolUsePath(k), eol, FALSE) :
                    k \in 0..MaxFragments, eol \in EndOfLines}
    /\ rest = body.bytes
    /\ pst = ParserInit("up")

SpecToolUse == InitToolUse /\ [][NextParse]_vars

\* the text of a fragment: the document without its tag
FragmentText(i) == Tail(ClaudeDocs[FragmentKey(i)])

\* the events the stream of a tool call with k fragments is to yield,
\* before the Done
ToolUseEvents(k) ==
    <<PToolCallStart("t1", "lookup")>>
    \o [i \in 1..k |-> PToolCallDelta("t1", FragmentText(i))]
    \o <<PToolCallComplete("t1", "lookup",
            ParseArguments(Flatten([i \in 1..k |-> FragmentText(i)])))>>

\* C22: the Claude stream content_block_start(tool_use t1 lookup), k
\* input_json_delta, content_block_stop, message_delta(tool_use),
\* message_stop yields ToolCallStart, k ToolCallDelta in arrival order,
\* ToolCallComplete with the parse of the concatenation, Done{ToolUse},
\* and nothing else.
C22_ToolUseStream ==
    RanToEnd =>
        LET k == Len(body.path) - 4
        IN  /\ Len(pst.out) = k + 3
            /\ SubSeq(pst.out, 1, k + 2) = ToolUseEvents(k)
            /\ Last(pst.out).type = "Done"
            /\ Last(pst.out).stop_reason = Some("ToolUse")

----------------------------------------------------------------------------
(* send_message against stream_message over a response that is text only.  *)

MaxParts == 3       \* text parts (blocks, deltas) of a response

TextKeys == {"T", "Ta"}

\* the documents that close the stream of a text response
ClosingOf(p) ==
    CASE p = "claude" -> <<"F", "E">> [] p = "gemini" -> <<>> [] p = "local" -> <<"Z">>

TextPaths == UNION {[1..n -> TextKeys] : n \in 1..MaxParts}

\* the text parts of the response: those of the frames of the stream
PartsOf(p, path) ==
    LET texts == SelectSeq(path, LAMBDA k : k \in TextKeys)
    IN  [i \in 1..Len(texts) |-> Tail(DocsOf(p)[texts[i]])]

\* content_parts.join("")
ClaudeContent(parts) == Flatten(parts)

\* c.parts.into_iter().filter_map(|p| p.text).next()
GeminiContent(parts) == IF parts = <<>> THEN <<>> ELSE parts[1]

\* choices.first().message.content: the message holds the text as one string
LocalContent(parts) == Flatten(parts)

\* the content of the ChatResponse send_message returns
SendMessageContent(p, parts) ==
    CASE p = "claude" -> ClaudeContent(parts)
      [] p = "gemini" -> GeminiContent(parts)
      [] p = "local"  -> LocalContent(parts)

InitEquiv ==
    /\ AgentIdle
    /\ StoreIdle
    /\ ToolIdle
    /\ AdapterIdle
    /\ ppc = "read"
    /\ parser \in Parsers
    /\ body \in {BodyOf(parser, path \o ClosingOf(parser), <<LF>>, FALSE) :
                    path \in TextPaths}
    /\ rest = body.bytes
    /\ pst = ParserInit("up")

SpecEquiv == InitEquiv /\ [][NextParse]_vars

\* the concatenation of all Token texts emitted
StreamedText ==
    LET tokens == SelectSeq(pst.out, LAMBDA ev : ev.type = "Token")
    IN  Flatten([i \in 1..Len(tokens) |-> tokens[i].text])

\* C23: for each adapter and a response of one or more text parts (LF line
\* endings, whole frames), the concatenation of the Token texts of
\* stream_message is the content send_message returns for the response
\* with the same text parts.
C23_StreamEqualsSend ==
    RanToEnd => StreamedText = SendMessageContent(parser, PartsOf(parser, body.path))

----------------------------------------------------------------------------
(* The conversation store: the messages table of Database and the two     *)
(* reconciliation operations of services::conversation.  created_at is    *)
(* stored as the text DateTime::to_rfc3339 gives and compared by SQLite as *)
(* text.  An instant is a number of half seconds; its text is the seconds  *)
(* digit, ".5" when there is a fraction, and the offset sign.              *)

MaxMessages == 3    \* rows inserted in a run

\* the instants of the clock, in half seconds: 0 s, 0.5 s, 1 s
Instants == 0..2
\* the conversation the user regenerates and edits in
Reconciled == "c1"
Roles == {"user", "assistant"}
\* the content of a message when it is inserted, and after an edit
Inserted == "x"
Edited == "y"

Digits == <<"0", "1", "2", "3", "4", "5", "6", "7", "8", "9">>
Digit(n) == Digits[n + 1]

\* DateTime<Utc>::to_rfc3339(): the fraction is printed only when not zero
to_rfc3339(t) ==
    <<Digit(t \div 2)>> \o (IF t % 2 = 1 THEN <<".", "5">> ELSE <<>>) \o <<"+">>

\* the byte of a character of a timestamp
ByteOf(ch) ==
    CASE ch = "+" -> 43 [] ch = "." -> 46
      [] ch = "0" -> 48 [] ch = "1" -> 49 [] ch = "2" -> 50 [] ch = "3" -> 51
      [] ch = "4" -> 52 [] ch = "5" -> 53 [] ch = "6" -> 54 [] ch = "7" -> 55
      [] ch = "8" -> 56 [] ch = "9" -> 57

\* DateTime::parse_from_rfc3339
parse_from_rfc3339(text) ==
    2 * (ByteOf(text[1]) - 48) + (IF Len(text) > 2 THEN 1 ELSE 0)


\* SQLite's comparison of two TEXT values (BINARY collation): a > b
RECURSIVE TextGreater(_, _)
TextGreater(a, b) ==
    IF a = <<>> THEN FALSE
    ELSE IF b = <<>> THEN TRUE
    ELSE IF ByteOf(Head(a)) # ByteOf(Head(b)) THEN ByteOf(Head(a)) > ByteOf(Head(b))
    ELSE TextGreater(Tail(a), Tail(b))

\* row_to_message: the Message of a row
row_to_message(row) ==
    [id |-> row.id, conversation_id |-> row.conversation_id, role |-> row.role,
     content |-> row.content, is_active |-> row.is_active,
     created_at |-> parse_from_rfc3339(row.created_at)]

\* INSERT INTO messages
insert_message(table, message) ==
    Append(table,
           [id |-> message.id, conversation_id |-> message.conversation_id,
            role |-> message.role, content |-> message.content,
            is_active |-> message.is_active,
            created_at |-> to_rfc3339(message.created_at)])

\* ORDER BY created_at ASC: a row goes behind the rows already sorted whose
\* created_at is not greater, so rows with the same created_at stay in rowid
\* order, as SQLite's sorter leaves them
RECURSIVE OrderBy(_)
OrderBy(rows) ==
    IF rows = <<>> THEN <<>>
    ELSE LET sorted == OrderBy(SubSeq(rows, 1, Len(rows) - 1))
             row == rows[Len(rows)]
             k == Cardinality({i \in 1..Len(sorted) :
                      ~TextGreater(sorted[i].created_at, row.created_at)})
         IN  SubSeq(sorted, 1, k) \o <<row>> \o SubSeq(sorted, k + 1, Len(sorted))

\* SELECT .. FROM messages WHERE conversation_id = ?1 AND is_active = 1
\* ORDER BY created_at ASC
list_messages(table, conversation_id) ==
    LET rows == OrderBy(SelectSeq(table,
                    LAMBDA r : r.conversation_id = conversation_id /\ r.is_active))
    IN  [i \in 1..Len(rows) |-> row_to_message(rows[i])]

\* load_messages_with_attachments (attachments are left out)
load_messages(table, conversation_id) == list_messages(table, conversation_id)

\* the same, setting is_active = 1 as well
update_and_reactivate(table, id, content) ==
    [i \in 1..Len(table) |->
        IF table[i].id = id
        THEN [table[i] EXCEPT !.content = content, !.is_active = TRUE] ELSE table[i]]

\* UPDATE messages SET content = ?1 WHERE id = ?2
update_message_content(table, id, content) ==
    [i \in 1..Len(table) |->
        IF table[i].id = id THEN [table[i] EXCEPT !.content = content] ELSE table[i]]

\* the same with created_at >= ?2
deactivate_messages_from(table, conversation_id, after_created_at) ==
    [i \in 1..Len(table) |->
        IF /\ table[i].conversation_id = conversation_id
           /\ ~TextGreater(after_created_at, table[i].created_at)
        THEN [table[i] EXCEPT !.is_active = FALSE] ELSE table[i]]

\* UPDATE messages SET is_active = 0
\*   WHERE conversation_id = ?1 AND created_at > ?2
deactivate_messages_after(table, conversation_id, after_created_at) ==
    [i \in 1..Len(table) |->
        IF /\ table[i].conversation_id = conversation_id
           /\ TextGreater(table[i].created_at, after_created_at)
        THEN [table[i] EXCEPT !.is_active = FALSE] ELSE table[i]]

\* messages.iter().position(|m| m.id == id), 0 for None
PositionOf(listed, id) ==
    LET hits == {i \in 1..Len(listed) : listed[i].id = id}
    IN  IF hits = {} THEN 0 ELSE MinOf(hits)

\* the nearest preceding message, whatever its role
PrecedingAnyRole(listed, idx) == IF idx = 0 THEN 0 ELSE idx - 1

\* messages[..idx].iter().rev().find(|m| m.role == Role::User), 0 for None
PrecedingUser(listed, idx) ==
    LET hits == {i \in 1..(idx - 1) : listed[i].role = "user"}
    IN  IF hits = {} THEN 0 ELSE CHOOSE i \in hits : \A j \in hits : j <= i

\* Result<Vec<Message>> of an operation, with the table it leaves
Ok(table, returned) == [ok |-> TRUE, error |-> "", db |-> table, returned |-> returned]
Err(table, error)   == [ok |-> FALSE, error |-> error, db |-> table, returned |-> <<>>]

prepare_regeneration(table, conversation_id, assistant_msg_id) ==
    LET listed == list_messages(table, conversation_id)
        assistant_idx == PositionOf(listed, assistant_msg_id)
        user_idx == PrecedingUser(listed, assistant_idx)
    IN  IF assistant_idx = 0 THEN Err(table, "Message not found")
        ELSE IF user_idx = 0 THEN Err(table, "No preceding user message found")
        ELSE LET cutoff_ts == to_rfc3339(listed[user_idx].created_at)
                 left == deactivate_messages_after(table, conversation_id, cutoff_ts)
             IN  Ok(left, load_messages(left, conversation_id))

prepare_edit(table, conversation_id, msg_id, new_content) ==
    LET updated == update_message_content(table, msg_id, new_content)
        listed == list_messages(updated, conversation_id)
        idx == PositionOf(listed, msg_id)
        left == IF idx = 0 THEN updated
                ELSE deactivate_messages_after(updated, conversation_id,
                         to_rfc3339(listed[idx].created_at))
    IN  Ok(left, load_messages(left, conversation_id))

\* what is kept of an operation: its arguments, its result, the table before
Outcome(name, conversation_id, id, content, result) ==
    [name |-> name, conversation_id |-> conversation_id, msg_id |-> id,
     new_content |-> content, ok |-> result.ok, error |-> result.error,
     returned |-> result.returned, before |-> db]

\* the clock of Utc::now() does not run backwards
Now == IF db = <<>> THEN Instants
       ELSE {t \in Instants : t >= parse_from_rfc3339(db[Len(db)].created_at)}

\* the ids a request can name: those of the rows, and one of no row
MessageIds == 1..(Len(db) + 1)

\* a message is built with a fresh id and the time of the clock, and inserted
InsertMessage ==
    /\ Len(db) < MaxMessages
    /\ \E role \in Roles, t \in Now :
          /\ db' = insert_message(db,
                     [id |-> Len(db) + 1, conversation_id |-> Reconciled,
                      role |-> role, content |-> Inserted, is_active |-> TRUE,
                      created_at |-> t])
          /\ op' = Outcome("insert_message", Reconciled, Len(db) + 1, Inserted,
                           Ok(db', <<>>))
    /\ UNCHANGED <<agentVars, parseVars, toolVars, adapterVars>>

PrepareRegeneration ==
    /\ \E id \in MessageIds :
          LET result == prepare_regeneration(db, Reconciled, id)
          IN  /\ db' = result.db
              /\ op' = Outcome("prepare_regeneration", Reconciled, id, "", result)
    /\ UNCHANGED <<agentVars, parseVars, toolVars, adapterVars>>

PrepareEdit ==
    /\ \E id \in MessageIds :
          LET result == prepare_edit(db, Reconciled, id, Edited)
          IN  /\ db' = result.db
              /\ op' = Outcome("prepare_edit", Reconciled, id, Edited, result)
    /\ UNCHANGED <<agentVars, parseVars, toolVars, adapterVars>>

InitStore == AgentIdle /\ ParseIdle /\ StoreIdle /\ ToolIdle /\ AdapterIdle

NextStore ==
    \/ InsertMessage
    \/ PrepareRegeneration
    \/ PrepareEdit

SpecStore == InitStore /\ [][NextStore]_vars

----------------------------------------------------------------------------
(* Properties of the conversation store.                                   *)

\* the row of a message in a table
RowOf(table, id) == table[CHOOSE i \in 1..Len(table) : table[i].id = id]

\* the last operation was a successful prepare_regeneration of an assistant
\* message
Regenerated ==
    /\ op.name = "prepare_regeneration"
    /\ op.ok
    /\ RowOf(op.before, op.msg_id).role = "assistant"

\* C24: prepare_regeneration is idempotent: applied again to the same
\* conversation and target right after it succeeded, it succeeds again,
\* returns the same messages and leaves the table as it is.
C24_RegenerationIdempotent ==
    Regenerated =>
        LET again == prepare_regeneration(db, op.conversation_id, op.msg_id)
        IN  /\ again.ok
            /\ again.returned = op.returned
            /\ again.db = db

\* the messages of the conversation, active or not, in the order of the list
AllListed(table, conversation_id) ==
    LET rows == OrderBy(SelectSeq(table, LAMBDA r : r.conversation_id = conversation_id))
    IN  [i \in 1..Len(rows) |-> row_to_message(rows[i])]

\* the list is the active messages of the conversation, oldest first
IsActiveList(returned, table, conversation_id) ==
    /\ {returned[i].id : i \in 1..Len(returned)} =
          {table[i].id : i \in {k \in 1..Len(table) :
              table[k].conversation_id = conversation_id /\ table[k].is_active}}
    /\ \A i, j \in 1..Len(returned) : i # j => returned[i].id # returned[j].id
    /\ \A i \in 1..Len(returned) :
          /\ returned[i].is_active
          /\ returned[i].content = RowOf(table, returned[i].id).content
          /\ i < Len(returned) => returned[i].created_at <= returned[i + 1].created_at

\* C25: after a successful prepare_regeneration the target and every message
\* after it in the conversation are inactive, every message up to and
\* including the nearest preceding user message is still active, and the
\* returned list is the active messages in chronological order, whatever the
\* timestamps, equal ones included.
C25_RegenerationCutsAtTarget ==
    Regenerated =>
        LET all == AllListed(op.before, op.conversation_id)
            listed == list_messages(op.before, op.conversation_id)
            target == PositionOf(listed, op.msg_id)
            user == PrecedingUser(listed, target)
        IN  /\ \A i \in 1..Len(all) :
                  i >= PositionOf(all, op.msg_id) => ~RowOf(db, all[i].id).is_active
            /\ \A i \in 1..user : RowOf(db, listed[i].id).is_active
            /\ IsActiveList(op.returned, db, op.conversation_id)

\* the message is an active message of the conversation in the table
ActiveIn(table, conversation_id, id) ==
    \E i \in 1..Len(table) :
        /\ table[i].id = id
        /\ table[i].conversation_id = conversation_id
        /\ table[i].is_active

\* a user message comes before the message in the list
UserBefore(listed, id) ==
    \E i, j \in 1..Len(listed) :
        i < j /\ listed[i].role = "user" /\ listed[j].id = id

\* C26: prepare_regeneration returns an error when the target is not among
\* the active messages of the conversation or no user message precedes it,
\* and only then; with the error the table is as it was.
C26_RegenerationErrors ==
    op.name = "prepare_regeneration" =>
        LET listed == list_messages(op.before, op.conversation_id)
            fails == \/ ~ActiveIn(op.before, op.conversation_id, op.msg_id)
                     \/ ~UserBefore(listed, op.msg_id)
        IN  /\ op.ok = ~fails
            /\ ~op.ok => db = op.before /\ op.returned = <<>>

\* a target that follows only assistant messages was refused
C26_Witness ==
    /\ op.name = "prepare_regeneration"
    /\ ~op.ok
    /\ op.error = "No preceding user message found"
    /\ ActiveIn(op.before, op.conversation_id, op.msg_id)
    /\ PositionOf(list_messages(op.before, op.conversation_id), op.msg_id) >= 2
    /\ db = op.before

\* the instant of a row
InstantOf(row) == parse_from_rfc3339(row.created_at)

C28_ActiveOnlyFalls ==
    /\ Len(db) >= Len(op.before)
    /\ \A i \in 1..Len(op.before) :
          /\ db[i].id = op.before[i].id
          /\ db[i].is_active => op.before[i].is_active

\* an inactive message was edited and is still inactive
C28_Witness ==
    /\ op.name = "prepare_edit"
    /\ \E i \in 1..Len(op.before) :
          /\ op.before[i].id = op.msg_id
          /\ ~op.before[i].is_active
          /\ ~db[i].is_active
          /\ db[i].content # op.before[i].content

----------------------------------------------------------------------------
(* web_fetch (tools/builtin/web_fetch.rs).                                 *)
(*                                                                         *)
(* An IpAddr is the tuple of its parts: four octets for V4, eight 16-bit   *)
(* segments for V6.  A URL is the record of what Url::parse extracts from  *)
(* it: the scheme ("" when the text has none and does not parse), and the  *)
(* host, a domain name or an IP literal.  The answer of the resolver to a  *)
(* domain name is an input of the call; an IP literal resolves to itself.  *)
(* The body of a response is not part of the state: the result carries the *)
(* status line only.                                                       *)

MaxAddrs == 2
MaxRequests == 1
MaxRedirects == 1   \* redirects the client follows in the model

V4(a, b, c, d) == <<a, b, c, d>>
V6(a, b, c, d, e, f, g, h) == <<a, b, c, d, e, f, g, h>>
IsV4(ip) == Len(ip) = 4

Addresses ==
    { V4(127, 0, 0, 1), V4(10, 0, 0, 5), V4(172, 31, 0, 1), V4(172, 32, 0, 1),
      V4(192, 168, 1, 1), V4(169, 254, 169, 254), V4(0, 0, 0, 0),
      V4(93, 184, 216, 34),
      V6(0, 0, 0, 0, 0, 0, 0, 1),               \* ::1
      V6(0, 0, 0, 0, 0, 0, 0, 0),               \* ::
      V6(64768, 0, 0, 0, 0, 0, 0, 1),           \* fd00::1
      V6(64512, 0, 0, 0, 0, 0, 0, 1),           \* fc00::1
      V6(65152, 0, 0, 0, 0, 0, 0, 1),           \* fe80::1
      V6(65215, 0, 0, 0, 0, 0, 0, 1),           \* febf::1
      V6(65216, 0, 0, 0, 0, 0, 0, 1),           \* fec0::1
      V6(9734, 10240, 544, 1, 0, 0, 0, 1),      \* 2606:2800:220:1::1
      V6(0, 0, 0, 0, 0, 65535, 32512, 1),       \* ::ffff:127.0.0.1
      V6(0, 0, 0, 0, 0, 65535, 23992, 55330) }  \* ::ffff:93.184.216.34

\* Ipv4Addr::is_loopback, is_private, is_link_local, is_unspecified
V4IsLoopback(ip) == ip[1] = 127
V4IsPrivate(ip) ==
    \/ ip[1] = 10
    \/ ip[1] = 172 /\ ip[2] \in 16..31
    \/ ip[1] = 192 /\ ip[2] = 168
V4IsLinkLocal(ip) == ip[1] = 169 /\ ip[2] = 254
V4IsUnspecified(ip) == ip = V4(0, 0, 0, 0)

\* Ipv6Addr::is_loopback, is_unspecified
V6IsLoopback(ip) == ip = V6(0, 0, 0, 0, 0, 0, 0, 1)
V6IsUnspecified(ip) == ip = V6(0, 0, 0, 0, 0, 0, 0, 0)

is_private_ip(ip) ==
    IF IsV4(ip)
    THEN \/ V4IsLoopback(ip)
         \/ V4IsPrivate(ip)
         \/ V4IsLinkLocal(ip)
         \/ V4IsUnspecified(ip)
    ELSE \/ V6IsLoopback(ip)
         \/ V6IsUnspecified(ip)
         \/ ip[1] \div 256 = 253     \* (segments()[0] & 0xff00) == 0xfd00
         \/ ip[1] \div 64 = 1018     \* (segments()[0] & 0xffc0) == 0xfe80

Schemes == {"http", "https", "ftp", "file"}
Domains == {"example.com"}

Url(scheme, domain, ip) == [scheme |-> scheme, domain |-> domain, ip |-> ip]

\* the texts a call may carry as its url
RawUrls ==
    {Url(sc, d, None) : sc \in {"http", "https", "ftp"}, d \in Domains}
        \cup {Url("http", "", Some(ip)) : ip \in Addresses}
        \cup {Url("file", "", None), Url("", "example.com", None)}

\* Url::parse: a text without a scheme is a relative reference, and an
\* http(s) URL needs a host
UrlParses(raw) ==
    /\ raw.scheme # ""
    /\ raw.scheme \in {"http", "https"} => (raw.domain # "" \/ raw.ip # None)

HasHost(parsed) == parsed.domain # "" \/ parsed.ip # None
HostStr(parsed) == IF parsed.ip # None THEN parsed.ip ELSE <<parsed.domain>>

\* Url::to_string
UrlString(parsed) == <<parsed.scheme, "://">> \o HostStr(parsed) \o <<"/">>

\* what the resolver may answer for a domain name: an error, or up to
\* MaxAddrs addresses
RECURSIVE Tuples(_, _)
Tuples(S, n) ==
    IF n = 0 THEN {<<>>}
    ELSE LET shorter == Tuples(S, n - 1)
         IN  shorter \cup {Append(t, x) : t \in {u \in shorter : Len(u) = n - 1},
                                          x \in S}
Failed == [ok |-> FALSE, addrs |-> <<>>]
\* the addresses the records of a domain name are drawn from
Resolvable ==
    { V4(93, 184, 216, 34), V4(10, 0, 0, 5),
      V6(9734, 10240, 544, 1, 0, 0, 0, 1), V6(0, 0, 0, 0, 0, 0, 0, 1),
      V6(64512, 0, 0, 0, 0, 0, 0, 1), V6(0, 0, 0, 0, 0, 65535, 32512, 1) }
Answers ==
    {Failed} \cup {[ok |-> TRUE, addrs |-> t] : t \in Tuples(Resolvable, MaxAddrs)}
\* the resolver is asked only for the domain name of an http(s) URL
AnswersTo(arg) ==
    IF arg # None /\ arg[1].scheme \in {"http", "https"} /\ arg[1].domain # ""
    THEN Answers ELSE {Failed}

\* tokio::net::lookup_host: a literal address is not looked up
lookup_host(parsed, answer) ==
    IF parsed.ip # None THEN [ok |-> TRUE, addrs |-> parsed.ip] ELSE answer

Valid(url) == [ok |-> TRUE, value |-> url]
Invalid(message) == [ok |-> FALSE, value |-> message]

\* the loop of validate_url over every address of the answer
any_private(addrs) == \E i \in 1..Len(addrs) : is_private_ip(addrs[i])
FirstPrivate(addrs) ==
    addrs[CHOOSE i \in 1..Len(addrs) :
              /\ is_private_ip(addrs[i])
              /\ \A j \in 1..(i - 1) : ~is_private_ip(addrs[j])]

validate_url(raw_url, answer) ==
    IF ~UrlParses(raw_url) THEN Invalid(<<"Invalid URL">>)
    ELSE IF raw_url.scheme \notin {"http", "https"}
    THEN Invalid(<<"Blocked scheme", raw_url.scheme>>)
    ELSE IF ~HasHost(raw_url) THEN Invalid(<<"URL has no host">>)
    ELSE LET resolved == lookup_host(raw_url, answer)
         IN  IF ~resolved.ok
             THEN Invalid(<<"DNS resolution failed">> \o HostStr(raw_url))
             ELSE IF resolved.addrs = <<>>
             THEN Invalid(<<"DNS resolution returned no addresses">>
                             \o HostStr(raw_url))
             ELSE IF any_private(resolved.addrs)
             THEN Invalid(<<"Blocked">> \o HostStr(raw_url)
                             \o <<FirstPrivate(resolved.addrs)>>)
             ELSE Valid(UrlString(raw_url))

\* what HTTP_CLIENT.get(url).send() and response.text() may come to
Unsent == [sent |-> FALSE, status |-> 0, read |-> FALSE]
Responses ==
    { Unsent,
      [sent |-> TRUE, status |-> 200, read |-> TRUE],
      [sent |-> TRUE, status |-> 200, read |-> FALSE],
      [sent |-> TRUE, status |-> 404, read |-> TRUE] }
\* a request is sent only for a URL that passed validate_url
ResponsesTo(arg, answer) ==
    IF arg # None /\ validate_url(arg[1], answer).ok THEN Responses ELSE {Unsent}

\* where a redirect may point: a name, or a loopback address
Locations ==
    {Url("http", "example.com", None), Url("http", "", Some(V4(127, 0, 0, 1)))}

\* what the resolver may answer when the client connects: a public and a
\* private address
Rebound == {V4(93, 184, 216, 34), V4(10, 0, 0, 5)}

\* the address the client connects to for a URL: the literal address of the
\* host, or an address of the answer the resolver gives when the client
\* connects, which is another lookup than that of validate_url
ConnectTo(parsed) ==
    IF parsed.ip # None THEN {parsed.ip[1]} ELSE Rebound

\* HTTP_CLIENT.get(url).send(): the connections the client opens.  None
\* when the lookup or the connection fails; one for the request; and, the
\* client being built with the default redirect policy, those of the
\* request it sends to the Location of a redirect response
RECURSIVE Routes(_, _)
Routes(parsed, redirects) ==
    {<<>>}
      \cup {<<a>> : a \in ConnectTo(parsed)}
      \cup (IF redirects = 0 THEN {}
            ELSE UNION {{<<a>> \o r : r \in Routes(to, redirects - 1) \ {<<>>}} :
                           a \in ConnectTo(parsed), to \in Locations})

\* connections are opened only for a URL that passed validate_url
RoutesOf(arg, answer, response) ==
    IF arg # None /\ validate_url(arg[1], answer).ok
    THEN {r \in Routes(arg[1], MaxRedirects) : response.sent => r # <<>>}
    ELSE {<<>>}

ToolOutcome(name, arguments, answer, content, is_error) ==
    [name |-> name, arguments |-> arguments, answer |-> answer,
     content |-> content, is_error |-> is_error,
     sent |-> net, before |-> disk]

WebFetch ==
    /\ \E arg \in {None} \cup {Some(u) : u \in RawUrls} :
       \E answer \in AnswersTo(arg) :
       \E response \in ResponsesTo(arg, answer) :
       \E route \in RoutesOf(arg, answer, response) :
          /\ conns' = conns \o route
          /\ (arg # None /\ validate_url(arg[1], answer).ok)
                 => Len(net) < MaxRequests
          /\ IF arg = None
             THEN /\ tool' = ToolOutcome("web_fetch", arg, answer,
                                 <<"Missing required parameter: url">>, TRUE)
                  /\ net' = net
             ELSE LET url == validate_url(arg[1], answer)
                  IN  IF ~url.ok
                      THEN /\ tool' = ToolOutcome("web_fetch", arg, answer,
                                                  url.value, TRUE)
                           /\ net' = net
                      ELSE /\ net' = Append(net, url.value)
                           /\ tool' =
                                IF ~response.sent
                                THEN ToolOutcome("web_fetch", arg, answer,
                                         <<"HTTP request failed">>, TRUE)
                                ELSE IF ~response.read
                                THEN ToolOutcome("web_fetch", arg, answer,
                                         <<"Failed to read response body">>, TRUE)
                                ELSE ToolOutcome("web_fetch", arg, answer,
                                         <<"HTTP", response.status>>,
                                         response.status \notin 200..299)
    /\ UNCHANGED <<disk, agentVars, parseVars, storeVars, adapterVars>>

InitFetch == AgentIdle /\ ParseIdle /\ StoreIdle /\ ToolIdle /\ AdapterIdle

NextFetch == WebFetch

SpecFetch == InitFetch /\ [][NextFetch]_vars

(* Properties of web_fetch.                                                *)

\* the IPv4 address an IPv4-mapped IPv6 address (::ffff:a.b.c.d) stands for
IsMapped(ip) == ~IsV4(ip) /\ SubSeq(ip, 1, 6) = <<0, 0, 0, 0, 0, 65535>>
Mapped(ip) == V4(ip[7] \div 256, ip[7] % 256, ip[8] \div 256, ip[8] % 256)

\* loopback, private, link-local and unspecified addresses, by the ranges
\* of the address registries: 127.0.0.0/8, 10.0.0.0/8, 172.16.0.0/12,
\* 192.168.0.0/16, 169.254.0.0/16, 0.0.0.0; ::1, ::, fc00::/7 (unique
\* local), fe80::/10, and the IPv4-mapped form of each IPv4 one
Internal4(ip) ==
    \/ ip[1] = 127
    \/ ip[1] = 10
    \/ ip[1] = 172 /\ ip[2] \div 16 = 1
    \/ ip[1] = 192 /\ ip[2] = 168
    \/ ip[1] = 169 /\ ip[2] = 254
    \/ \A i \in 1..4 : ip[i] = 0
Internal(ip) ==
    IF IsV4(ip) THEN Internal4(ip)
    ELSE \/ \A i \in 1..7 : ip[i] = 0 /\ ip[8] \in {0, 1}
         \/ ip[1] \div 512 = 126
         \/ ip[1] \div 64 = 1018
         \/ IsMapped(ip) /\ Internal4(Mapped(ip))

\* the addresses the host of the last call resolved to
ResolvedOf(c) ==
    IF c.arguments = None \/ ~UrlParses(c.arguments[1]) THEN <<>>
    ELSE LET resolved == lookup_host(c.arguments[1], c.answer)
         IN  IF resolved.ok THEN resolved.addrs ELSE <<>>

\* C29: a web_fetch call whose URL has a scheme other than http and https,
\* or whose host resolves to at least one loopback, private, link-local or
\* unspecified address, returns an error result and sends no HTTP request.
C29_ValidatesBeforeFetch ==
    (/\ tool.name = "web_fetch"
     /\ tool.arguments # None
     /\ \/ tool.arguments[1].scheme \notin {"http", "https"}
        \/ \E i \in 1..Len(ResolvedOf(tool)) : Internal(ResolvedOf(tool)[i]))
        => (tool.is_error /\ net = tool.sent)

----------------------------------------------------------------------------
(* file_write (tools/builtin/file_write.rs).                               *)
(*                                                                         *)
(* A path is the sequence of its components, absolute or relative to the   *)
(* working directory.  The file system is the set of its entries below the *)
(* root: directories, files (with their content) and symbolic links (with  *)
(* their target, an absolute path).  The process may write everywhere;     *)
(* any call of the operating system may still fail.                        *)

MaxHops == 2

Dir(path) == [path |-> path, kind |-> "dir", data |-> <<>>]
File(path, content) == [path |-> path, kind |-> "file", data |-> <<content>>]
Link(path, target) == [path |-> path, kind |-> "link", data |-> target]

Has(fs, path) == path = <<>> \/ \E entry \in fs : entry.path = path
Entry(fs, path) ==
    IF path = <<>> THEN Dir(<<>>) ELSE CHOOSE entry \in fs : entry.path = path

Front(path) == SubSeq(path, 1, Len(path) - 1)

\* realpath(3): every component exists and every link is followed
RECURSIVE Walk(_, _, _, _)
Walk(fs, done, todo, hops) ==
    IF todo = <<>> THEN Some(done)
    ELSE LET here == Append(done, Head(todo))
         IN  IF ~Has(fs, here) THEN None
             ELSE LET entry == Entry(fs, here)
                  IN  CASE entry.kind = "dir" -> Walk(fs, here, Tail(todo), hops)
                        [] entry.kind = "file" ->
                              IF Tail(todo) = <<>> THEN Some(here) ELSE None
                        [] entry.kind = "link" ->
                              IF hops = 0 THEN None
                              ELSE Walk(fs, <<>>, entry.data \o Tail(todo), hops - 1)

Cwd == <<"tmp">>
Path(abs, parts) == [abs |-> abs, parts |-> parts]
Absolute(path) == IF path.abs THEN path.parts ELSE Cwd \o path.parts

\* Path::canonicalize, Path::exists
canonicalize(fs, path) == Walk(fs, <<>>, Absolute(path), MaxHops)
exists(fs, path) == canonicalize(fs, path) # None

\* Path::parent, Path::file_name
parent(path) ==
    IF path.parts = <<>> THEN None ELSE Some(Path(path.abs, Front(path.parts)))
file_name(path) == IF path.parts = <<>> THEN None ELSE Some(Last(path.parts))

Succeeded(fs) == [ok |-> TRUE, fs |-> fs]
Refused(fs) == [ok |-> FALSE, fs |-> fs]

\* fs::create_dir_all: every missing component becomes a directory
RECURSIVE MakeDirs(_, _, _)
MakeDirs(fs, done, todo) ==
    IF todo = <<>> THEN Succeeded(fs)
    ELSE LET here == Append(done, Head(todo))
         IN  IF ~Has(fs, here)
             THEN MakeDirs(fs \cup {Dir(here)}, here, Tail(todo))
             ELSE LET real == Walk(fs, <<>>, here, MaxHops)
                  IN  IF real # None /\ Entry(fs, real[1]).kind = "dir"
                      THEN MakeDirs(fs, real[1], Tail(todo))
                      ELSE Refused(fs)
create_dir_all(fs, path) == MakeDirs(fs, <<>>, Absolute(path))

\* fs::write: open(O_WRONLY | O_CREAT | O_TRUNC) follows a link in the last
\* component, a dangling one included
RECURSIVE WriteThrough(_, _, _, _)
WriteThrough(fs, target, content, hops) ==
    IF target = <<>> THEN Refused(fs)
    ELSE LET dir == Walk(fs, <<>>, Front(target), MaxHops)
         IN  IF dir = None \/ Entry(fs, dir[1]).kind # "dir" THEN Refused(fs)
             ELSE LET here == Append(dir[1], Last(target))
                  IN  IF ~Has(fs, here) THEN Succeeded(fs \cup {File(here, content)})
                      ELSE LET entry == Entry(fs, here)
                           IN  CASE entry.kind = "dir" -> Refused(fs)
                                 [] entry.kind = "file" ->
                                       Succeeded((fs \ {entry}) \cup {File(here, content)})
                                 [] entry.kind = "link" ->
                                       IF hops = 0 THEN Refused(fs)
                                       ELSE WriteThrough(fs, entry.data, content,
                                                         hops - 1)
write(fs, target, content) == WriteThrough(fs, target, content, MaxHops)

BLOCKED_PREFIXES == {"etc", "usr", "bin", "sbin", "boot", "proc", "sys", "dev"}

\* resolved_str == prefix || resolved_str.starts_with(prefix + "/")
UnderBlockedPrefix(resolved) == resolved # <<>> /\ resolved[1] \in BLOCKED_PREFIXES

\* the `resolved` of execute: the canonical path of an existing target, or
\* the canonical parent joined with the file name
Resolve(fs, path) ==
    IF exists(fs, path)
    THEN [ok |-> TRUE, path |-> canonicalize(fs, path)[1], message |-> <<>>]
    ELSE LET dir == IF parent(path) = None THEN None
                    ELSE canonicalize(fs, parent(path)[1])
         IN  IF dir = None
             THEN [ok |-> FALSE, path |-> <<>>,
                   message |-> <<"Cannot resolve parent directory">>]
             ELSE IF file_name(path) = None
             THEN [ok |-> FALSE, path |-> <<>>,
                   message |-> <<"Invalid path: no filename">>]
             ELSE [ok |-> TRUE, path |-> Append(dir[1], file_name(path)[1]),
                   message |-> <<>>]

\* the file system before any call
Base == {Dir(<<"etc">>), Dir(<<"tmp">>), File(<<"etc", "a">>, "o")}
LinkTargets == {<<"etc", "a">>, <<"etc", "n">>, <<"etc">>, <<"tmp", "a">>}
Disks ==
    {Base \cup links \cup files :
        links \in {{}} \cup {{Link(<<"tmp", "l">>, t)} : t \in LinkTargets},
        files \in {{}, {File(<<"tmp", "a">>, "o")}}}

\* the paths a call may name
PathArgs ==
    {Path(TRUE, parts) :
        parts \in {<<>>, <<"etc">>, <<"etc", "a">>, <<"etc", "n">>,
                   <<"etc", "d", "n">>, <<"tmp">>, <<"tmp", "a">>,
                   <<"tmp", "n">>, <<"tmp", "l">>, <<"tmp", "l", "n">>,
                   <<"tmp", "d", "n">>}}
        \cup {Path(FALSE, parts) : parts \in {<<"a">>, <<"l">>, <<"d", "n">>}}

Written == "x"

FileResult(arguments, content, is_error) ==
    ToolOutcome("file_write", arguments, Failed, content, is_error)

\* execute, with io: whether the calls of the operating system succeed
execute_file_write(fs, path, content, io) ==
    LET made == IF parent(path) # None /\ ~exists(fs, parent(path)[1])
                THEN IF io.mkdir THEN create_dir_all(fs, parent(path)[1])
                     ELSE Refused(fs)
                ELSE Succeeded(fs)
    IN  IF ~made.ok
        THEN [fs |-> made.fs, content |-> <<"Failed to create directories">>,
              is_error |-> TRUE]
        ELSE LET resolved == Resolve(made.fs, path)
             IN  IF ~resolved.ok
                 THEN [fs |-> made.fs, content |-> resolved.message,
                       is_error |-> TRUE]
                 ELSE IF UnderBlockedPrefix(resolved.path)
                 THEN [fs |-> made.fs,
                       content |-> <<"Blocked: writing is not allowed",
                                     resolved.path>>,
                       is_error |-> TRUE]
                 ELSE LET wrote == IF io.write
                                   THEN write(made.fs, resolved.path, content)
                                   ELSE Refused(made.fs)
                      IN  IF wrote.ok
                          THEN [fs |-> wrote.fs,
                                content |-> <<"Successfully wrote",
                                              resolved.path>>,
                                is_error |-> FALSE]
                          ELSE [fs |-> wrote.fs,
                                content |-> <<"Failed to write", resolved.path>>,
                                is_error |-> TRUE]

FileWrite ==
    /\ \E path \in {None} \cup {Some(a) : a \in PathArgs},
          content \in {None, Some(Written)},
          io \in [mkdir : BOOLEAN, write : BOOLEAN] :
          IF path = None
          THEN /\ tool' = FileResult(<<path, content>>,
                              <<"Missing required parameter: path">>, TRUE)
               /\ disk' = disk
          ELSE IF content = None
          THEN /\ tool' = FileResult(<<path, content>>,
                              <<"Missing required parameter: content">>, TRUE)
               /\ disk' = disk
          ELSE LET result == execute_file_write(disk, path[1], content[1], io)
               IN  /\ disk' = result.fs
                   /\ tool' = FileResult(<<path, content>>, result.content,
                                         result.is_error)
    /\ UNCHANGED <<net, conns, agentVars, parseVars, storeVars, adapterVars>>

InitWrite ==
    /\ AgentIdle
    /\ ParseIdle
    /\ StoreIdle
    /\ net = <<>>
    /\ conns = <<>>
    /\ tool = NotCalled
    /\ disk \in Disks
    /\ AdapterIdle

NextWrite == FileWrite

SpecWrite == InitWrite /\ [][NextWrite]_vars

(* Properties of file_write.                                               *)

\* where the content written under a name lands: every link is followed,
\* the last one included, and what does not exist yet keeps its name
RECURSIVE Lands(_, _, _, _)
Lands(fs, done, todo, hops) ==
    IF todo = <<>> THEN Some(done)
    ELSE LET here == Append(done, Head(todo))
         IN  IF ~Has(fs, here) THEN Some(here \o Tail(todo))
             ELSE LET entry == Entry(fs, here)
                  IN  CASE entry.kind = "dir" -> Lands(fs, here, Tail(todo), hops)
                        [] entry.kind = "file" ->
                              IF Tail(todo) = <<>> THEN Some(here) ELSE None
                        [] entry.kind = "link" ->
                              IF hops = 0 THEN None
                              ELSE Lands(fs, <<>>, entry.data \o Tail(todo), hops - 1)

SystemDirectories == {"etc", "usr", "bin", "sbin", "boot", "proc", "sys", "dev"}
InSystemDirectory(path) == path # <<>> /\ path[1] \in SystemDirectories

\* the last call was a file_write with both arguments
Wrote == tool.name = "file_write" /\ None \notin {tool.arguments[1], tool.arguments[2]}
ResolvedTarget == Lands(tool.before, <<>>, Absolute(tool.arguments[1][1]), MaxHops)

\* C30: a file_write call never creates or changes a file that is, or lies
\* under, one of the system directories, and a call whose path resolves to
\* such a place (an existing target, or a new file resolved through its
\* parent directory) returns an error result.
C30_NoWriteUnderSystemDirectories ==
    Wrote =>
        /\ \A entry \in disk :
              (entry.kind = "file" /\ InSystemDirectory(entry.path))
                  => entry \in tool.before
        /\ (ResolvedTarget # None /\ InSystemDirectory(ResolvedTarget[1]))
              => tool.is_error

----------------------------------------------------------------------------
(* The provider adapters (providers/*/adapter.rs).                         *)
(*                                                                         *)
(* A reply is what the HTTP client hands back: no response at all (a       *)
(* transport failure), or a status with a body.  Bodies of failures:       *)
(*   plain  text that is not JSON                                          *)
(*   json   {"error": {"message": "overloaded"}}                           *)
(*   auth   {"error": {"message": "invalid api_key"}}                      *)
(* Bodies of successes:                                                    *)
(*   ok         a well-formed answer with content (or models)              *)
(*   empty      a well-formed answer without content (or models)           *)
(*   error      {"error": {"message": "overloaded"}}                       *)
(*   malformed  text that is not JSON                                      *)
(* The three adapters classify the reply with the same statements, written *)
(* out once per method in each of them.                                    *)

Statuses == {200, 302, 400, 401, 403, 404, 429, 500}
FailureBodies == {"plain", "json", "auth"}
SuccessBodies == {"ok", "empty", "error", "malformed"}
is_success(status) == status \in 200..299

NoReply == [sent |-> FALSE, status |-> 0, body |-> "none"]
Replies ==
    {NoReply} \cup
    {[sent |-> TRUE, status |-> st, body |-> b] :
        st \in Statuses, b \in FailureBodies \cup SuccessBodies}
ReplyFits(reply) ==
    reply.sent =>
        (reply.body \in IF is_success(reply.status) THEN SuccessBodies
                        ELSE FailureBodies)

ProviderErrors ==
    {"AuthError", "RateLimited", "RequestFailed", "NetworkError", "InvalidResponse"}
Failure(kind, message) == [ok |-> FALSE, error |-> kind, value |-> message]
Success(value) == [ok |-> TRUE, error |-> "", value |-> value]

parse_error_message(status, text) ==
    IF text = "plain" THEN <<"HTTP", status, "Request failed">>
    ELSE IF text = "json" THEN <<"HTTP", status, "overloaded">>
    ELSE <<"HTTP", status, "invalid api_key">>

\* body.contains("authentication") || body.contains("api_key")
MentionsAuth(text) == text = "auth"

\* the statements after send() in send_message and stream_message of every
\* adapter: None when the status is a success
Classify(reply) ==
    IF ~reply.sent THEN Some(Failure("NetworkError", <<"transport">>))
    ELSE IF reply.status \in {401, 403}
    THEN Some(Failure("AuthError", <<"Invalid API key">>))
    ELSE IF reply.status = 429 THEN Some(Failure("RateLimited", <<>>))
    ELSE IF ~is_success(reply.status)
    THEN Some(Failure("RequestFailed", parse_error_message(reply.status, reply.body)))
    ELSE None

BaseUrlRequired == Failure("RequestFailed", <<"Base URL is required for Local provider">>)

ClaudeValidate(reply) ==
    IF ~reply.sent THEN Failure("NetworkError", <<"transport">>)
    ELSE IF reply.status \in {401, 403} THEN Failure("AuthError", <<"Invalid API key">>)
    ELSE IF is_success(reply.status)
    THEN IF reply.body \in {"malformed", "error"}
         THEN Failure("InvalidResponse", <<"json">>)
         ELSE IF reply.body = "empty" THEN Success(<<"fallback models">>)
         ELSE Success(<<"models">>)
    ELSE IF MentionsAuth(reply.body)
    THEN Failure("AuthError", parse_error_message(reply.status, reply.body))
    ELSE Success(<<"fallback models">>)

\* Gemini and Local: no test for 429 before the test for a failure
PlainValidate(reply) ==
    IF ~reply.sent THEN Failure("NetworkError", <<"transport">>)
    ELSE IF reply.status \in {401, 403} THEN Failure("AuthError", <<"Invalid API key">>)
    ELSE IF ~is_success(reply.status)
    THEN Failure("RequestFailed", parse_error_message(reply.status, reply.body))
    ELSE IF reply.body \in {"malformed", "error"}
    THEN Failure("InvalidResponse", <<"json">>)
    ELSE IF reply.body = "empty" THEN Success(<<>>)
    ELSE Success(<<"models">>)

validate_credentials(adapter, base_url, reply) ==
    CASE adapter = "claude" -> ClaudeValidate(reply)
      [] adapter = "gemini" -> PlainValidate(reply)
      [] adapter = "local" ->
            IF base_url = None THEN BaseUrlRequired ELSE PlainValidate(reply)

send_message(adapter, base_url, reply) ==
    IF adapter = "local" /\ base_url = None THEN BaseUrlRequired
    ELSE IF Classify(reply) # None THEN Classify(reply)[1]
    ELSE IF reply.body = "malformed" THEN Failure("InvalidResponse", <<"json">>)
    ELSE IF reply.body = "error"
    THEN IF adapter = "gemini" THEN Failure("RequestFailed", <<"overloaded">>)
         ELSE Failure("InvalidResponse", <<"json">>)
    ELSE IF reply.body = "empty"
    THEN Failure("InvalidResponse", <<"No content in response">>)
    ELSE Success(<<"response">>)

\* the error stream_message returns before it starts the parser, if any
StreamRefused(adapter, base_url, reply) ==
    IF adapter = "local" /\ base_url = None THEN Some(BaseUrlRequired)
    ELSE Classify(reply)

BaseUrls(adapter) == IF adapter = "local" THEN {None, Some("base")} ELSE {None}

Rpc(adapter, method, base_url, reply, result) ==
    [adapter |-> adapter, method |-> method, base_url |-> base_url,
     reply |-> reply, result |-> result]

\* the call starts no parser: its channel stays empty
NoStream ==
    /\ ppc' = "idle"
    /\ parser' = "none"
    /\ body' = [path |-> <<>>, eol |-> <<>>, cut |-> FALSE, bytes |-> <<>>]
    /\ rest' = <<>>
    /\ pst' = <<>>

\* a call starts once the call before it returned
CallReturned == ppc \in {"idle", "finished"}

ValidateCredentials ==
    /\ CallReturned
    /\ \E adapter \in Parsers, reply \in Replies :
       \E base_url \in BaseUrls(adapter) :
          /\ ReplyFits(reply)
          /\ rpc' = Rpc(adapter, "validate_credentials", base_url, reply,
                        validate_credentials(adapter, base_url, reply))
    /\ NoStream
    /\ UNCHANGED <<agentVars, storeVars, toolVars>>

SendMessage ==
    /\ CallReturned
    /\ \E adapter \in Parsers, reply \in Replies :
       \E base_url \in BaseUrls(adapter) :
          /\ ReplyFits(reply)
          /\ rpc' = Rpc(adapter, "send_message", base_url, reply,
                        send_message(adapter, base_url, reply))
    /\ NoStream
    /\ UNCHANGED <<agentVars, storeVars, toolVars>>

\* the bodies of the streams the adapters are given here: one frame
StreamBodies(adapter) ==
    {BodyOf(adapter, path, <<LF>>, FALSE) : path \in PathsOf(adapter, 1)}

\* stream_message: an error, or parse_sse_stream over the response and then
\* Ok(())
StreamMessage ==
    /\ CallReturned
    /\ \E adapter \in Parsers, reply \in Replies :
       \E base_url \in BaseUrls(adapter) :
          /\ ReplyFits(reply)
          /\ LET refused == StreamRefused(adapter, base_url, reply)
             IN  IF refused # None
                 THEN /\ rpc' = Rpc(adapter, "stream_message", base_url, reply,
                                    refused[1])
                      /\ NoStream
                 ELSE /\ rpc' = Rpc(adapter, "stream_message", base_url, reply,
                                    Success(<<>>))
                      /\ ppc' = "read"
                      /\ parser' = adapter
                      /\ body' \in StreamBodies(adapter)
                      /\ rest' = body'.bytes
                      /\ \E order \in DrainOrders(adapter) : pst' = ParserInit(order)
    /\ UNCHANGED <<agentVars, storeVars, toolVars>>

InitAdapter == AgentIdle /\ ParseIdle /\ StoreIdle /\ ToolIdle /\ AdapterIdle

NextAdapter ==
    \/ ValidateCredentials
    \/ SendMessage
    \/ StreamMessage
    \/ NextParse

SpecAdapter == InitAdapter /\ [][NextAdapter]_vars

(* Properties of the adapters.                                             *)

\* the one stated exception: the models listing of the Claude adapter, when
\* the endpoint fails with a status other than 401 and 403
StaticListFallback ==
    /\ rpc.adapter = "claude"
    /\ rpc.method = "validate_credentials"
    /\ rpc.reply.sent
    /\ rpc.reply.status \notin {401, 403}

\* the request was sent (the Local adapter had its base URL)
Requested == rpc.adapter # "none" /\ (rpc.adapter = "local" => rpc.base_url # None)

\* C31: in every adapter and every method, 401 and 403 give AuthError, 429
\* gives RateLimited, every other status outside 2xx gives RequestFailed and
\* a transport failure gives NetworkError, the static-list fallback of the
\* Claude adapter excepted; and a stream_message that returns an error has
\* emitted no stream event.
C31_UniformClassification ==
    /\ (Requested /\ ~StaticListFallback) =>
          /\ ~rpc.reply.sent => rpc.result.error = "NetworkError"
          /\ (rpc.reply.sent /\ rpc.reply.status \in {401, 403})
                => rpc.result.error = "AuthError"
          /\ (rpc.reply.sent /\ rpc.reply.status = 429)
                => rpc.result.error = "RateLimited"
          /\ (rpc.reply.sent /\ ~is_success(rpc.reply.status)
                 /\ rpc.reply.status \notin {401, 403, 429})
                => rpc.result.error = "RequestFailed"
    /\ (rpc.method = "stream_message" /\ ~rpc.result.ok) => (ppc = "idle" /\ pst = <<>>)

----------------------------------------------------------------------------
(* The Claude and Local parsers over the pieces of tool calls, in every    *)
(* order.                                                                  *)

MaxPieces == 3

\* Claude: the start of the one tool block, its fragments, its stop and a
\* text delta; Local: the id, the name and the fragments of call 0, alone
\* or together, and the start and the fragment of call 1
Pieces(p) ==
    IF p = "claude" THEN {"B", "J1", "J2", "S", "Ta"}
    ELSE {"A", "I", "L", "G1", "G2", "C", "H"}

\* the frame that ends the message
Closing(p) == IF p = "claude" THEN "E" ELSE "Z"

\* a response names each tool block once
Occurrences(path, key) == Cardinality({i \in 1..Len(path) : path[i] = key})

\* the pieces in any order, with the closing frame or ended by the end of
\* the body
PiecePaths(p) ==
    LET orders == {q \in UNION {[1..n -> Pieces(p)] : n \in 1..MaxPieces} :
                     /\ Occurrences(q, "B") <= 1
                     /\ Occurrences(q, "C") <= 1
                     /\ Occurrences(q, "A") + Occurrences(q, "I") <= 1
                     /\ Occurrences(q, "A") + Occurrences(q, "L") <= 1}
    IN  orders \cup {Append(path, Closing(p)) : path \in orders}

InitPieces ==
    /\ AgentIdle
    /\ StoreIdle
    /\ ToolIdle
    /\ AdapterIdle
    /\ ppc = "read"
    /\ parser \in {"claude", "local"}
    /\ body \in {BodyOf(parser, path, <<LF>>, FALSE) : path \in PiecePaths(parser)}
    /\ rest = body.bytes
    /\ \E order \in DrainOrders(parser) : pst = ParserInit(order)

SpecPieces == InitPieces /\ [][NextParse]_vars

StartsOf(out, id) == {i \in 1..Len(out) : out[i].type = "ToolCallStart" /\ out[i].id = id}

\* C32: in the Claude and Local parsers every ToolCallDelta and every
\* ToolCallComplete carries the id of exactly one ToolCallStart, emitted
\* before it, and no id is started twice: whatever the order in which the
\* id, the name and the fragments of a call arrive, and with the frames of
\* two calls interleaved.
C32_StartOnceAndFirst ==
    \A j \in 1..Len(pst.out) :
        /\ pst.out[j].type \in {"ToolCallDelta", "ToolCallComplete"} =>
              \E i \in 1..(j - 1) : StartsOf(pst.out, pst.out[j].id) = {i}
        /\ pst.out[j].type = "ToolCallStart" =>
              StartsOf(pst.out, pst.out[j].id) = {j}

----------------------------------------------------------------------------
(* The agent loop: provider failures, terminal events, order of the tool   *)
(* phase.                                                                  *)

\* the message of the Error the provider stream delivers: the parser's Error
\* event, or the text of the ProviderError the spawned task turns into one
ProviderFailure == ErrorEvent("provider error")

CountOf(type) == Len(SelectSeq(events, LAMBDA e : e.type = type))

\* the inner loop leaves the stream phase by `return` with the sink open,
\* neither on the cancellation branch nor at the end of the stream
ReturnsOnStreamEvent ==
    /\ pc = "stream"
    /\ pc' = "returned"
    /\ sink_open'
    /\ cancelSeen' = cancelSeen
    /\ usageLog' = usageLog

\* C33: when the provider stream of an iteration delivers an Error, the
\* loop emits exactly one AgentEvent::Error with its message and no Done,
\* executes no tool call of that iteration and issues no further provider
\* request.
C33_StreamErrorEndsRun ==
    [][/\ ReturnsOnStreamEvent => events' = Append(events, ProviderFailure)
       /\ (\E i \in 1..Len(events') : events'[i] = ProviderFailure) =>
            /\ pc' = "returned"
            /\ Last(events') = ProviderFailure
            /\ CountOf("Error")' = 1
            /\ CountOf("Done")' = 0
            /\ requests' = iteration'
            /\ \A j \in 1..Len(execLog') : execLog'[j].it # iteration'
       /\ (\E i \in 1..Len(events) : events[i] = ProviderFailure) =>
            UNCHANGED <<events, requests, execLog>>]_vars

\* tool calls of the second iteration were received, then the stream failed
C33_Witness ==
    /\ ReturnedOpen
    /\ events # <<>>
    /\ Last(events) = ProviderFailure
    /\ tool_calls # <<>>
    /\ execLog # <<>>

Terminal(e) == e.type \in {"Done", "Error"}

\* C34: in a run whose event sink stays open exactly one terminal event,
\* Done or Error, is emitted and it is the last event of the run: nothing is
\* emitted after a terminal event, and the loop never returns without
\* having emitted one.
C34_OneTerminalEventLast ==
    /\ \A i \in 1..Len(events) :
          Terminal(events[i]) => (i = Len(events) /\ pc = "returned")
    /\ ReturnedOpen => (events # <<>> /\ Terminal(Last(events)))

\* a run of two iterations, the first with a tool call, ended by Done
C34_Witness ==
    /\ ReturnedOpen
    /\ iteration = 2
    /\ execLog # <<>>
    /\ Last(events).type = "Done"
    /\ CountOf("Done") + CountOf("Error") = 1

\* the calls of the iteration the loop has dealt with: those it started to
\* execute and those that were denied
Settled ==
    Len(SelectSeq(execLog, LAMBDA x : x.it = iteration))
    + Len(SelectSeq(decisionLog,
                    LAMBDA d : d.it = iteration /\ d.decision = "Deny"))

ToolPhase(e) == e.type \in {"AwaitingApproval", "ToolExecuting"}

\* C35: within an iteration the tools run one at a time, in the order in
\* which their ToolCallComplete arrived: every ToolCallReceived of the
\* iteration is emitted before its first AwaitingApproval or ToolExecuting
\* (the event before it is of the tool phase only as the denied request of
\* an earlier iteration), an AwaitingApproval or ToolExecuting is for the first call received that
\* has not been dealt with, and a ToolExecuting is followed at once by the
\* ToolCompleted of the same call.
C35_ToolsOneAtATimeInOrder ==
    [][/\ \A i \in 1..(Len(events') - 1) :
            events'[i].type = "ToolExecuting" =>
                /\ events'[i + 1].type = "ToolCompleted"
                /\ events'[i + 1].call = events'[i].call
       /\ events' # events =>
            /\ events' = Append(events, Last(events'))
            /\ Last(events').type = "ToolCallReceived" =>
                  /\ tool_calls' = Append(tool_calls, Last(events').call)
                  /\ Settled = 0
                  /\ (events # <<>> /\ ToolPhase(Last(events))) =>
                        \E j \in 1..Len(decisionLog) :
                            /\ decisionLog[j].at = Len(events)
                            /\ decisionLog[j].decision = "Deny"
                            /\ decisionLog[j].it < iteration
            /\ ToolPhase(Last(events')) =>
                  /\ tool_calls' = tool_calls
                  /\ Settled < Len(tool_calls)
                  /\ Last(events').call = tool_calls[Settled + 1]
            /\ Last(events').type = "ToolCompleted" =>
                  /\ events # <<>>
                  /\ Last(events) = ToolExecuting(Last(events').call)]_vars

\* two calls arrived in one iteration and both were executed
C35_Witness ==
    /\ Len(execLog) = 2
    /\ execLog[1].it = execLog[2].it
    /\ execLog[1].call.id = "t1"
    /\ execLog[2].call.id = "t2"
    /\ CountOf("ToolCompleted") = 2
    /\ sink_open

----------------------------------------------------------------------------
(* Termination of the loop.  The task of the loop is scheduled whenever it *)
(* can take a step; the provider stream goes on until it ends (the events  *)
(* that change nothing are stuttering steps, so the fairness of StreamRecv *)
(* asks for an event the loop acts on); a tool that was started returns;   *)
(* and the presentation layer does not leave the loop suspended on an      *)
(* approval for ever: it answers, drops the sender, or cancels.            *)

Answered ==
    \/ SendDecision
    \/ CloseApproval
    \/ (pc = "await" /\ approval_open /\ approval_rx = <<>> /\ Cancel)

Fairness ==
    /\ WF_vars(LoopStart)
    /\ WF_vars(StreamRecv)
    /\ WF_vars(ToolNext)
    /\ WF_vars(ApprovalRecv)
    /\ WF_vars(ApprovalClosed)
    /\ WF_vars(ApprovalCancelled)
    /\ WF_vars(ToolExecuted)
    /\ WF_vars(Answered)

FairSpec == Init /\ [][Next]_vars /\ Fairness

\* C36: under the fairness above every run of the loop eventually returns,
\* and it has then issued at most max_iterations provider requests.
C36_Terminates == <>(pc = "returned" /\ requests <= max_iterations)

\* a run that went through every iteration it was allowed and returned
C36_Witness ==
    /\ pc = "returned"
    /\ max_iterations = MaxIterations
    /\ requests = max_iterations
    /\ LimitExhausted

----------------------------------------------------------------------------
(* The store with a second conversation: the table starts with a message   *)
(* of another conversation, and the operations go on in the reconciled     *)
(* one.                                                                    *)

\* a conversation the operations are not applied to
Other == "c2"

InitShared ==
    /\ AgentIdle /\ ParseIdle /\ ToolIdle /\ AdapterIdle
    /\ op = NoOp
    /\ \E role \in Roles, active \in BOOLEAN, t \in Instants :
          db = insert_message(<<>>,
                  [id |-> 1, conversation_id |-> Other, role |-> role,
                   content |-> Inserted, is_active |-> active, created_at |-> t])

SpecShared == InitShared /\ [][NextStore]_vars

\* the rows of the table that are not of the conversation
Outside(table, conversation_id) ==
    SelectSeq(table, LAMBDA r : r.conversation_id # conversation_id)

\* C37: prepare_edit on a conversation leaves every message of every other
\* conversation as it was, in content and in is_active, whatever message id
\* it is given.
C37_EditLeavesOtherConversations ==
    op.name = "prepare_edit" =>
        Outside(db, op.conversation_id) = Outside(op.before, op.conversation_id)

----------------------------------------------------------------------------
(* file_write: what a rejected call leaves behind.                         *)

\* the last call was rejected because of the deny-list
Blocked ==
    /\ Wrote
    /\ tool.is_error
    /\ tool.content[1] = "Blocked: writing is not allowed"

\* C38: a file_write call rejected because its resolved path lies under a
\* system directory leaves the file system as it was: no file written, no
\* directory created.
C38_BlockedCallChangesNothing == Blocked => disk = tool.before

----------------------------------------------------------------------------
(* The parsers at the end of the body.                                     *)

\* the body ended after the line of its last frame, without the blank line
EndedInFrame == RanToEnd /\ body.cut

\* the same frames, the last one closed by its blank line
Closed(b) == Encode(parser, b.path, b.eol)

\* C39: no frame is lost at the end of the body: when the body ends with a
\* last frame that has no blank line after it, the parser emits the events
\* of that frame as well, before the final Done; the events are those of
\* the body whose last frame is closed.  In each of the three parsers.
C39_LastFrameParsedAtEndOfBody ==
    EndedInFrame =>
        pst.out = SingleChunk(parser, pst.drain_order, Closed(body)).out

----------------------------------------------------------------------------
(* web_fetch: the connections of the HTTP client.                          *)

\* C40: no connection opened by web_fetch goes to a loopback, private,
\* link-local or unspecified address, whatever the resolver answers when
\* the client connects and wherever a redirect points.
C40_NoConnectionToInternalAddress ==
    \A i \in 1..Len(conns) : ~Internal(conns[i])

====
